---- MODULE Spec2Model ----
(***************************************************************************)
(* Model of markdeep-to-pptx: the slide extractor (extractSlides and its   *)
(* in-page helpers) and the layout synthesizer (generatePptx and its       *)
(* renderers), as found in src/unnamed/part_000.                           *)
(*                                                                         *)
(* Conventions.                                                            *)
(*  - A JavaScript string is a sequence of one-character strings.  The two *)
(*    characters of the table-of-contents label (U+76EE U+5F55) are written*)
(*    "M" and "L"; " " is a blank and "nl" is the newline character.       *)
(*  - null / undefined / '' of an optional string is the empty sequence    *)
(*    (all three are falsy wherever the code tests them); a null           *)
(*    navChapters is the empty sequence (the code draws nothing for null   *)
(*    and for []); a null activeChapterIndex is NoActiveIndex.             *)
(*  - Lengths are integers in 1/1000 inch (SLIDE_WIDTH = 10 in = 10000).   *)
(*  - A primitive is a record; its field "role" names the call of          *)
(*    slide.addShape / slide.addText / slide.addTable that emitted it.     *)
(***************************************************************************)
EXTENDS Integers, Sequences, FiniteSets, TLC

VARIABLES
    pc,         \* position of the program in the specification being run
    slideInfo,  \* generatePptx: the element of slideData.slides being processed
    slide,      \* the primitives added so far to the current output slide
    pos,        \* generatePptx: number of slides of slideData.slides consumed
    total,      \* slideData.slides.length
    lastIndex,  \* index of the slide consumed before (indices increase)
    nSlides,    \* number of pptx.addSlide() calls made
    element,    \* the extracted element handed to a renderer
    dom,        \* extractor: the slide content under extraction
    elements,   \* extractor: the slide's element list
    node,       \* extractTextWithFormatting: the node it is applied to
    cli         \* main: the command-line run (arguments, calls made, exit)

vars == <<pc, slideInfo, slide, pos, total, lastIndex, nSlides, element,
          dom, elements, node, cli>>

(***************************************************************************)
(* Bounds of the model.                                                    *)
(***************************************************************************)
MaxSlides == 2
MaxElems == 2
MaxChapters == 3
MaxItems == 3
MaxLevel == 2

(***************************************************************************)
(* Program constants (1/1000 inch, points).                                *)
(***************************************************************************)
SLIDE_WIDTH == 10000
SLIDE_HEIGHT == 5625
NAV_BAR_HEIGHT == 350
NoActiveIndex == -1

FONT_SIZES ==
    [titleSlideTitle |-> 36, titleSlideSubtitle |-> 18, sectionTitle |-> 32,
     slideTitle |-> 24, body |-> 16, listItem |-> 16, smallText |-> 14,
     code |-> 12, footer |-> 9]

FONT_FACE == "Microsoft YaHei"

COLORS ==
    [primary |-> "2980B9", titleText |-> "2980B9", bodyText |-> "333333",
     lightText |-> "666666", white |-> "FFFFFF",
     noteBackground |-> "E3F2FD", noteBorder |-> "2196F3", noteText |-> "1565C0",
     tipBackground |-> "E8F5E9", tipBorder |-> "4CAF50", tipText |-> "2E7D32",
     warningBackground |-> "FFF8E1", warningBorder |-> "FFC107",
     warningText |-> "F57F17",
     errorBackground |-> "FFEBEE", errorBorder |-> "F44336", errorText |-> "C62828",
     questionBackground |-> "FFF3E0", questionBorder |-> "FF9800",
     questionText |-> "E65100",
     bulletColor |-> "2980B9"]

\* The label generatePptx looks for in a heading and renderTocSlide prints.
TocLabel == <<"M", "L">>

(***************************************************************************)
(* Strings.                                                                *)
(***************************************************************************)
Min(a, b) == IF a < b THEN a ELSE b
Max(a, b) == IF a > b THEN a ELSE b

\* String.prototype.includes
Includes(s, sub) ==
    \E i \in 0..(Len(s) - Len(sub)) : SubSeq(s, i + 1, i + Len(sub)) = sub

IsSpace(c) == c \in {" ", "nl"}

RECURSIVE TrimLeft(_)
TrimLeft(s) ==
    IF s = <<>> THEN <<>>
    ELSE IF IsSpace(Head(s)) THEN TrimLeft(Tail(s)) ELSE s

RECURSIVE TrimRight(_)
TrimRight(s) ==
    IF s = <<>> THEN <<>>
    ELSE IF IsSpace(s[Len(s)]) THEN TrimRight(SubSeq(s, 1, Len(s) - 1)) ELSE s

\* String.prototype.trim
Trim(s) == TrimRight(TrimLeft(s))

\* runs.map(r => r.text || '').join('')
RECURSIVE JoinRunTexts(_)
JoinRunTexts(rs) ==
    IF rs = <<>> THEN <<>> ELSE Head(rs).text \o JoinRunTexts(Tail(rs))

extractPlainText(rs) == Trim(JoinRunTexts(rs))

\* String.prototype.repeat applied to a one-character string
Repeat(c, n) == [i \in 1..n |-> c]

\* The bullet character of a list prefix, and the space after it
Bullet == <<"*", " ">>

\* The decimal digits of a number n >= 0: `${n}`
RECURSIVE Decimal(_)
Decimal(n) ==
    LET d == <<"0", "1", "2", "3", "4", "5", "6", "7", "8", "9">>[(n % 10) + 1]
    IN  IF n < 10 THEN <<d>> ELSE Append(Decimal(n \div 10), d)

\* Array.prototype.find and querySelector over the matches hits, in order:
\* the first one, as a sequence of at most one element (empty: undefined).
First(hits) == IF hits = <<>> THEN <<>> ELSE <<Head(hits)>>

RECURSIVE Flatten(_)
Flatten(ss) == IF ss = <<>> THEN <<>> ELSE Head(ss) \o Flatten(Tail(ss))

(***************************************************************************)
(* generatePptx: navigation bar and footer.                                *)
(***************************************************************************)
NoLine == [type |-> "none"]

\* One tab of renderNavBar's chapters.forEach: the white background of the
\* active tab, then the tab text.
NavTab(chapter, idx, activeIndex, currentX, tabWidth) ==
    LET isActive == (idx = activeIndex)
    IN  (IF isActive
         THEN <<[call |-> "addShape", role |-> "navActiveTab", shape |-> "rect",
                 x |-> currentX, y |-> 0, w |-> tabWidth, h |-> NAV_BAR_HEIGHT,
                 fill |-> COLORS.white, line |-> NoLine, idx |-> idx]>>
         ELSE <<>>)
        \o <<[call |-> "addText", role |-> "navTab", text |-> chapter,
              x |-> currentX, y |-> 0, w |-> tabWidth, h |-> NAV_BAR_HEIGHT,
              fontSize |-> 8, fontFace |-> FONT_FACE,
              color |-> IF isActive THEN COLORS.primary ELSE COLORS.white,
              bold |-> FALSE, align |-> "center", valign |-> "middle",
              idx |-> idx]>>

RECURSIVE SumSeq(_)
SumSeq(s) == IF s = <<>> THEN 0 ELSE Head(s) + SumSeq(Tail(s))

renderNavBar(si) ==
    LET chapters == si.metadata.navChapters
        activeIndex == si.metadata.activeChapterIndex
        charWidth == 120
        tabPadding == 150
        tocWidth == 500
        tabWidths == [i \in 1..Len(chapters) |->
                         Len(chapters[i]) * charWidth + tabPadding * 2]
        totalTabWidth == SumSeq(tabWidths)
        startX(i) == (SLIDE_WIDTH - totalTabWidth) + SumSeq(SubSeq(tabWidths, 1, i - 1))
    IN  IF Len(chapters) = 0 THEN <<>>
        ELSE <<[call |-> "addShape", role |-> "navBand", shape |-> "rect",
                x |-> 0, y |-> 0, w |-> SLIDE_WIDTH, h |-> NAV_BAR_HEIGHT,
                fill |-> COLORS.primary, line |-> NoLine],
               [call |-> "addShape", role |-> "navTocButton", shape |-> "rect",
                x |-> 0, y |-> 0, w |-> tocWidth, h |-> NAV_BAR_HEIGHT,
                fill |-> COLORS.white, line |-> NoLine],
               [call |-> "addText", role |-> "navTocText", text |-> TocLabel,
                x |-> 0, y |-> 0, w |-> tocWidth, h |-> NAV_BAR_HEIGHT,
                fontSize |-> 8, fontFace |-> FONT_FACE, color |-> COLORS.primary,
                align |-> "center", valign |-> "middle"]>>
             \o Flatten([i \in 1..Len(chapters) |->
                           NavTab(chapters[i], i - 1, activeIndex, startX(i),
                                  tabWidths[i])])

\* A progress bar that counts the slides before the current one.
ProgressBarFromIndex(si, totalSlides) ==
    [call |-> "addShape", role |-> "progress", shape |-> "rect",
     x |-> 0, y |-> SLIDE_HEIGHT - 40,
     w |-> [num |-> SLIDE_WIDTH * si.index, den |-> totalSlides],
     h |-> 40, fill |-> COLORS.primary, line |-> NoLine]

\* addFooter's progress bar; its width SLIDE_WIDTH * (currentSlide / totalSlides)
\* is kept as the exact fraction num / den.
ProgressBar(si, totalSlides) ==
    LET progressBarHeight == 40
        currentSlide == si.index + 1
    IN  [call |-> "addShape", role |-> "progress", shape |-> "rect",
         x |-> 0, y |-> SLIDE_HEIGHT - progressBarHeight,
         w |-> [num |-> SLIDE_WIDTH * currentSlide, den |-> totalSlides],
         h |-> progressBarHeight, fill |-> COLORS.primary, line |-> NoLine]

\* addFooter's chapter label (bottom left) and slide number (bottom right)
FooterLabels(si) ==
    (IF si.metadata.chapterLabel # <<>>
     THEN <<[call |-> "addText", role |-> "chapterLabel",
             text |-> si.metadata.chapterLabel,
             x |-> 300, y |-> SLIDE_HEIGHT - 400, w |-> 3000, h |-> 250,
             fontSize |-> FONT_SIZES.footer, color |-> COLORS.primary,
             fontFace |-> FONT_FACE]>>
     ELSE <<>>)
    \o (IF si.metadata.slideNumber # <<>>
        THEN <<[call |-> "addText", role |-> "pageNumber",
                text |-> si.metadata.slideNumber,
                x |-> SLIDE_WIDTH - 1200, y |-> SLIDE_HEIGHT - 400,
                w |-> 1000, h |-> 250,
                fontSize |-> FONT_SIZES.footer, color |-> COLORS.lightText,
                fontFace |-> FONT_FACE, align |-> "right"]>>
        ELSE <<>>)

\* A footer without the early return for title and section slides.
AddFooterSkipsNothing(si, isFirst, isH1, totalSlides) ==
    <<ProgressBar(si, totalSlides)>> \o FooterLabels(si)

\* A footer that draws the two labels and no progress bar.
AddFooterLabelsOnly(si, isFirst, isH1, totalSlides) ==
    IF isFirst \/ isH1 THEN <<>> ELSE FooterLabels(si)

addFooter(si, isFirst, isH1, totalSlides) ==
    <<ProgressBar(si, totalSlides)>>
    \o (IF isFirst \/ isH1 THEN <<>> ELSE FooterLabels(si))

(***************************************************************************)
(* generatePptx: the renderers of one extracted element.                   *)
(***************************************************************************)
renderShape(e) ==
    LET p == e.position
        extraHeight == 150
    IN  <<[call |-> "addShape", role |-> "shape", shape |-> "roundRect",
           x |-> p.x, y |-> p.y, w |-> p.w, h |-> p.h + extraHeight,
           fill |-> IF e.fill # "" THEN e.fill ELSE "F5F5F5",
           line |-> IF e.border # <<>> THEN e.border[1] ELSE NoLine]>>

renderSubheading(e) ==
    LET p == e.position
        fontSize == CASE e.level = 3 -> FONT_SIZES.body + 2
                      [] e.level = 4 -> FONT_SIZES.body
                      [] e.level \in {5, 6} -> FONT_SIZES.smallText
                      [] OTHER -> FONT_SIZES.body
    IN  <<[call |-> "addText", role |-> "subheading",
           runs |-> <<[text |-> extractPlainText(e.text),
                       options |-> [fontSize |-> fontSize, fontFace |-> FONT_FACE,
                                    color |-> COLORS.primary, bold |-> TRUE]]>>,
           x |-> Max(p.x, 500), y |-> p.y, w |-> Min(p.w, SLIDE_WIDTH - 1000),
           h |-> 350, valign |-> "top"]>>

\* The prefix run renderList puts before item idx (1-based here) of the list.
ListPrefixByPosition(e, idx) ==
    LET level == e.items[idx].level
        indent == Repeat(" ", 4 * level)
    IN  IF e.ordered /\ level = 0
        THEN indent \o Decimal(idx) \o <<".", " ">>
        ELSE indent \o <<"*", " ">>

ListPrefix(e, idx) ==
    LET level == e.items[idx].level
        indent == Repeat(" ", 4 * level)
        topLevelIndex == Len(SelectSeq(SubSeq(e.items, 1, idx),
                                       LAMBDA i : i.level = 0))
    IN  IF e.ordered /\ level = 0
        THEN indent \o Decimal(topLevelIndex) \o <<".", " ">>
        ELSE indent \o <<"*", " ">>

\* The runs renderList emits for item idx: prefix, the item's runs, and a
\* line break after every item but the last.
ListItemRuns(e, idx, fontSize) ==
    <<[kind |-> "prefix", item |-> idx, text |-> ListPrefix(e, idx),
       options |-> [color |-> COLORS.bulletColor, fontSize |-> fontSize,
                    bold |-> FALSE]]>>
    \o [j \in 1..Len(e.items[idx].text) |->
          LET run == e.items[idx].text[j]
          IN  [kind |-> "text", item |-> idx, text |-> run.text,
               options |-> [bold |-> run.options.bold, italic |-> run.options.italic,
                            color |-> IF run.options.bold THEN COLORS.primary
                                      ELSE COLORS.bodyText,
                            fontSize |-> fontSize]]]
    \o (IF idx < Len(e.items)
        THEN <<[kind |-> "break", item |-> idx, text |-> <<"nl">>,
                options |-> [fontSize |-> fontSize]]>>
        ELSE <<>>)

renderList(e) ==
    LET p == e.position
        fontSize == IF p.inColumn THEN FONT_SIZES.smallText ELSE FONT_SIZES.listItem
    IN  IF Len(e.items) = 0 THEN <<>>
        ELSE <<[call |-> "addText", role |-> "list",
                runs |-> Flatten([i \in 1..Len(e.items) |-> ListItemRuns(e, i, fontSize)]),
                x |-> Max(p.x, 500), y |-> Max(p.y, 900),
                w |-> Min(p.w, SLIDE_WIDTH - 1000),
                h |-> Min(p.h, SLIDE_HEIGHT - p.y - 500),
                fontFace |-> FONT_FACE, valign |-> "top"]>>

formatTextRuns(rs, defaultSize) ==
    [j \in 1..Len(rs) |->
        [text |-> rs[j].text,
         options |-> [bold |-> rs[j].options.bold, italic |-> rs[j].options.italic,
                      underline |-> rs[j].options.underline,
                      color |-> IF rs[j].options.bold THEN COLORS.primary
                                ELSE COLORS.bodyText,
                      fontSize |-> defaultSize]]]

renderParagraph(e) ==
    LET p == e.position
        fontSize == IF p.inColumn THEN FONT_SIZES.smallText ELSE FONT_SIZES.body
    IN  <<[call |-> "addText", role |-> "paragraph",
           runs |-> formatTextRuns(e.text, fontSize),
           x |-> Max(p.x, 500), y |-> p.y, w |-> Min(p.w, SLIDE_WIDTH - 1000),
           h |-> Max(p.h, 400), fontFace |-> FONT_FACE, valign |-> "top"]>>

\* renderAdmonition's typeColors object literal.
typeColors ==
    [note |-> [bg |-> COLORS.noteBackground, border |-> COLORS.noteBorder,
               text |-> COLORS.noteText],
     tip |-> [bg |-> COLORS.tipBackground, border |-> COLORS.tipBorder,
              text |-> COLORS.tipText],
     warning |-> [bg |-> COLORS.warningBackground, border |-> COLORS.warningBorder,
                  text |-> COLORS.warningText],
     error |-> [bg |-> COLORS.errorBackground, border |-> COLORS.errorBorder,
                text |-> COLORS.errorText],
     question |-> [bg |-> COLORS.questionBackground,
                   border |-> COLORS.questionBorder,
                   text |-> COLORS.questionText]]

\* Keys every object literal inherits from Object.prototype: typeColors[k] is
\* then a truthy value (a function or object) without bg / border / text.
ObjectPrototypeKeys ==
    {"constructor", "__proto__", "toString", "valueOf", "hasOwnProperty"}

InheritedProperty ==
    [bg |-> "undefined", border |-> "undefined", text |-> "undefined"]

\* typeColors[element.admonitionType] || typeColors.note
AdmonitionColors(kind) ==
    IF kind \in DOMAIN typeColors THEN typeColors[kind]
    ELSE IF kind \in ObjectPrototypeKeys THEN InheritedProperty
    ELSE typeColors.note

renderAdmonition(e) ==
    LET p == e.position
        colors == AdmonitionColors(e.admonitionType)
        height == Max(p.h, 800)
        boxX == Max(p.x, 500)
        boxW == Min(p.w, SLIDE_WIDTH - 1000)
        titleX == boxX + 200
        titleW == boxW - 400
        contentY0 == p.y + 120
        contentY == IF e.title # <<>> THEN contentY0 + 450 ELSE contentY0
    IN  <<[call |-> "addShape", role |-> "admonitionBox", shape |-> "roundRect",
           x |-> boxX, y |-> p.y, w |-> boxW, h |-> height,
           fill |-> colors.bg, line |-> NoLine],
          [call |-> "addShape", role |-> "admonitionBar", shape |-> "rect",
           x |-> boxX, y |-> p.y, w |-> 60, h |-> height,
           fill |-> colors.border, line |-> NoLine]>>
        \o (IF e.title # <<>>
            THEN <<[call |-> "addText", role |-> "admonitionTitle",
                    runs |-> <<[text |-> e.title,
                                options |-> [fontSize |-> FONT_SIZES.body,
                                             fontFace |-> FONT_FACE, bold |-> TRUE,
                                             color |-> colors.text]]>>,
                    x |-> titleX, y |-> contentY0, w |-> titleW, h |-> 350,
                    valign |-> "top"],
                   [call |-> "addShape", role |-> "admonitionUnderline",
                    shape |-> "rect", x |-> titleX, y |-> contentY0 + 320,
                    w |-> (titleW * 3) \div 10, h |-> 20,
                    fill |-> colors.border, line |-> NoLine]>>
            ELSE <<>>)
        \o (IF e.content # <<>>
            THEN <<[call |-> "addText", role |-> "admonitionBody",
                    text |-> e.content, x |-> boxX + 200, y |-> contentY,
                    w |-> boxW - 400, h |-> height - (contentY - p.y) - 100,
                    fontSize |-> FONT_SIZES.smallText, fontFace |-> FONT_FACE,
                    color |-> colors.text, valign |-> "top"]>>
            ELSE <<>>)

renderTable(e) ==
    LET p == e.position
        tableRows == [r \in 1..Len(e.rows) |->
                        [c \in 1..Len(e.rows[r]) |->
                            LET cell == e.rows[r][c]
                            IN  [text |-> cell.text,
                                 options |->
                                     [bold |-> cell.isHeader,
                                      fill |-> IF cell.isHeader THEN COLORS.primary
                                               ELSE "F5F5F5",
                                      color |-> IF cell.isHeader THEN "FFFFFF"
                                                ELSE COLORS.bodyText,
                                      fontSize |-> FONT_SIZES.smallText]]]]
        colCount == IF Len(e.rows[1]) = 0 THEN 1 ELSE Len(e.rows[1])
        tableWidth == Min(p.w, SLIDE_WIDTH - 1000)
    IN  IF Len(e.rows) = 0 THEN <<>>
        ELSE <<[call |-> "addTable", role |-> "table", rows |-> tableRows,
                x |-> Max(p.x, 500), y |-> p.y, w |-> tableWidth,
                colW |-> [c \in 1..colCount |-> tableWidth \div colCount],
                fontFace |-> FONT_FACE]>>

renderCode(e) ==
    LET p == e.position
        height == Max(p.h, 500)
    IN  <<[call |-> "addShape", role |-> "codeBox", shape |-> "rect",
           x |-> Max(p.x, 500), y |-> p.y, w |-> Min(p.w, SLIDE_WIDTH - 1000),
           h |-> height, fill |-> "F5F5F5", line |-> NoLine],
          [call |-> "addText", role |-> "codeText", text |-> e.code,
           x |-> Max(p.x, 500) + 100, y |-> p.y + 80,
           w |-> Min(p.w, SLIDE_WIDTH - 1000) - 200, h |-> height - 160,
           fontSize |-> FONT_SIZES.code, fontFace |-> "Courier New",
           color |-> "333333", valign |-> "top"]>>

renderBlockquote(e) ==
    LET p == e.position
        height == Max(p.h, 400)
    IN  <<[call |-> "addShape", role |-> "quoteBar", shape |-> "rect",
           x |-> Max(p.x, 500), y |-> p.y, w |-> 40, h |-> height,
           fill |-> COLORS.primary, line |-> NoLine],
          [call |-> "addText", role |-> "quoteText",
           text |-> extractPlainText(e.text),
           x |-> Max(p.x, 500) + 150, y |-> p.y,
           w |-> Min(p.w, SLIDE_WIDTH - 1000) - 150, h |-> height,
           fontSize |-> FONT_SIZES.body, fontFace |-> "Georgia", italic |-> TRUE,
           color |-> COLORS.lightText, valign |-> "top"]>>

\* The switch of renderContentSlide: the renderer of the element's variant
\* (an element of a variant without a case, such as an image, adds nothing).
RenderElement(e) ==
    CASE e.type = "heading" -> renderSubheading(e)
      [] e.type = "list" -> renderList(e)
      [] e.type = "paragraph" -> renderParagraph(e)
      [] e.type = "admonition" -> renderAdmonition(e)
      [] e.type = "table" -> renderTable(e)
      [] e.type = "code" -> renderCode(e)
      [] e.type = "blockquote" -> renderBlockquote(e)
      [] e.type = "shape" -> renderShape(e)
      [] OTHER -> <<>>

(***************************************************************************)
(* generatePptx: the four slide renderers.                                 *)
(***************************************************************************)
IsHeading(e) == e.type = "heading"
IsParagraph(e) == e.type = "paragraph"
IsList(e) == e.type = "list"
IsLevel(e, n) == e.type = "heading" /\ e.level = n

CentredTitle(role, titleElement, y, fontSize) ==
    [call |-> "addText", role |-> role, text |-> extractPlainText(titleElement.text),
     x |-> 500, y |-> y, w |-> SLIDE_WIDTH - 1000, h |-> 1000,
     fontSize |-> fontSize, fontFace |-> FONT_FACE, color |-> COLORS.primary,
     bold |-> TRUE, align |-> "center", valign |-> "middle"]

renderTitleSlide(si) ==
    LET titleElement == First(SelectSeq(si.elements, LAMBDA e : IsLevel(e, 1)))
        subtitleElement == First(SelectSeq(si.elements, IsParagraph))
        centerY == (SLIDE_HEIGHT \div 2) - 800
    IN  (IF titleElement # <<>>
         THEN <<CentredTitle("title", titleElement[1], centerY,
                             FONT_SIZES.titleSlideTitle)>>
         ELSE <<>>)
        \o (IF subtitleElement # <<>>
            THEN <<[call |-> "addText", role |-> "subtitle",
                    text |-> extractPlainText(subtitleElement[1].text),
                    x |-> 500, y |-> centerY + 1200, w |-> SLIDE_WIDTH - 1000,
                    h |-> 800, fontSize |-> FONT_SIZES.titleSlideSubtitle,
                    fontFace |-> FONT_FACE, color |-> COLORS.lightText,
                    align |-> "center"]>>
            ELSE <<>>)

renderSectionSlide(si) ==
    LET titleElement == First(SelectSeq(si.elements, LAMBDA e : IsLevel(e, 1)))
    IN  IF titleElement # <<>>
        THEN <<CentredTitle("sectionTitle", titleElement[1],
                            (SLIDE_HEIGHT \div 2) - 500, FONT_SIZES.sectionTitle)>>
        ELSE <<>>

\* The runs renderTocSlide emits for item idx (1-based here) of the list.
TocItemRuns(items, idx) ==
    <<[kind |-> "prefix", item |-> idx, text |-> Decimal(idx) \o <<".", " ">>,
       options |-> [fontSize |-> FONT_SIZES.body + 2, color |-> COLORS.primary,
                    bold |-> TRUE]],
      [kind |-> "text", item |-> idx, text |-> extractPlainText(items[idx].text),
       options |-> [fontSize |-> FONT_SIZES.body + 2, color |-> COLORS.bodyText,
                    bold |-> FALSE]]>>
    \o (IF idx < Len(items)
        THEN <<[kind |-> "break", item |-> idx, text |-> <<"nl">>,
                options |-> [fontSize |-> FONT_SIZES.body + 2]]>>
        ELSE <<>>)

renderTocSlide(si) ==
    LET hasNavBar == Len(si.metadata.navChapters) > 0
        titleY == IF hasNavBar THEN NAV_BAR_HEIGHT + 100 ELSE 300
        listElement == First(SelectSeq(si.elements, IsList))
    IN  (IF hasNavBar THEN renderNavBar(si) ELSE <<>>)
        \o <<[call |-> "addText", role |-> "tocTitle", text |-> TocLabel,
              x |-> 500, y |-> titleY, w |-> 2000, h |-> 500,
              fontSize |-> FONT_SIZES.slideTitle, fontFace |-> FONT_FACE,
              color |-> COLORS.primary, bold |-> TRUE]>>
        \o (IF listElement # <<>>
            THEN <<[call |-> "addText", role |-> "tocList",
                    runs |-> Flatten([i \in 1..Len(listElement[1].items) |->
                                        TocItemRuns(listElement[1].items, i)]),
                    x |-> 1500, y |-> titleY + 800, w |-> SLIDE_WIDTH - 3000,
                    h |-> SLIDE_HEIGHT - titleY - 1500, fontFace |-> FONT_FACE,
                    valign |-> "top"]>>
            ELSE <<>>)

renderContentSlide(si) ==
    LET titleElement == First(SelectSeq(si.elements, LAMBDA e : IsLevel(e, 2)))
        hasNavBar == Len(si.metadata.navChapters) > 0
        titleY == IF hasNavBar THEN NAV_BAR_HEIGHT + 100 ELSE 300
        titleWidth == Min(titleElement[1].position.w, SLIDE_WIDTH - 600)
        titleX == Max(titleElement[1].position.x, 300)
        others == SelectSeq(si.elements,
                            LAMBDA e : ~(e.type = "heading" /\ e.level <= 2))
    IN  (IF titleElement # <<>>
         THEN <<[call |-> "addText", role |-> "slideTitle",
                 text |-> extractPlainText(titleElement[1].text),
                 x |-> titleX, y |-> titleY, w |-> titleWidth, h |-> 500,
                 fontSize |-> FONT_SIZES.slideTitle, fontFace |-> FONT_FACE,
                 color |-> COLORS.titleText, bold |-> TRUE],
                [call |-> "addShape", role |-> "titleUnderline", shape |-> "rect",
                 x |-> titleX, y |-> titleY + 550, w |-> titleWidth, h |-> 25,
                 fill |-> COLORS.primary, line |-> NoLine]>>
         ELSE <<>>)
        \o Flatten([i \in 1..Len(others) |-> RenderElement(others[i])])

(***************************************************************************)
(* generatePptx: the body of the loop over slideData.slides.               *)
(***************************************************************************)
isFirstSlide(si) == si.index = 0

isH1TitleSlide(si) == si.metadata.isH1TitleSlide

\* slideInfo.elements.some(e => e.type === 'heading' &&
\*                              e.text?.[0]?.text?.includes(label))
isTocSlide(si) ==
    \E i \in 1..Len(si.elements) :
        /\ si.elements[i].type = "heading"
        /\ si.elements[i].text # <<>>
        /\ Includes(si.elements[i].text[1].text, TocLabel)

\* The strategy the if / else-if chain of the loop selects.
Strategy(si) ==
    IF isFirstSlide(si) THEN "Title"
    ELSE IF isH1TitleSlide(si) THEN "Section"
    ELSE IF isTocSlide(si) THEN "TableOfContents"
    ELSE "Content"

\* "Add navigation bar for content slides (not first slide or section slides)"
LoopNavBar(si) ==
    IF ~isFirstSlide(si) /\ ~isH1TitleSlide(si) /\ Len(si.metadata.navChapters) > 0
    THEN renderNavBar(si)
    ELSE <<>>

RenderByStrategy(si) ==
    CASE Strategy(si) = "Title" -> renderTitleSlide(si)
      [] Strategy(si) = "Section" -> renderSectionSlide(si)
      [] Strategy(si) = "TableOfContents" -> renderTocSlide(si)
      [] Strategy(si) = "Content" -> renderContentSlide(si)

\* Everything one iteration of the loop adds to its output slide.
LoopBody(si, totalSlides) ==
    LoopNavBar(si) \o RenderByStrategy(si)
    \o addFooter(si, isFirstSlide(si), isH1TitleSlide(si), totalSlides)

(***************************************************************************)
(* Inputs of generatePptx: slides as extractSlides builds them.            *)
(***************************************************************************)
\* A run's options: the flags and colour extractTextWithFormatting may set
\* ("" : no colour recorded).
Plain == [bold |-> FALSE, italic |-> FALSE, underline |-> FALSE, color |-> ""]
Bold == [bold |-> TRUE, italic |-> FALSE, underline |-> FALSE, color |-> ""]

Run(t, o) == [text |-> t, options |-> o]

Pos(x, y, w, h, inColumn) == [x |-> x, y |-> y, w |-> w, h |-> h, inColumn |-> inColumn]

Heading(level, rs, p) == [type |-> "heading", level |-> level, text |-> rs, position |-> p]
Paragraph(rs, p) == [type |-> "paragraph", text |-> rs, position |-> p]
List(ordered, items, p) ==
    [type |-> "list", ordered |-> ordered, items |-> items, position |-> p]
Item(rs, level) == [text |-> rs, level |-> level]
Admonition(kind, title, content, p) ==
    [type |-> "admonition", admonitionType |-> kind, title |-> title,
     content |-> content, position |-> p]
Image(p) == [type |-> "image", src |-> <<"u">>, position |-> p]

BodyPos == Pos(1000, 1500, 4000, 1000, FALSE)
TitlePos == Pos(800, 400, 6000, 600, FALSE)

\* The elements the slides of the loop's input are built from: headings of
\* three levels whose first run is, contains, or is only a part of the
\* table-of-contents label, and one element of several other variants.
LoopElements ==
    {Heading(1, <<Run(<<"a">>, Bold)>>, TitlePos),
     Heading(2, <<Run(<<"b">>, Bold)>>, TitlePos),
     Heading(3, <<Run(TocLabel, Bold)>>, BodyPos),
     Heading(2, <<Run(TocLabel \o <<"a">>, Bold)>>, TitlePos),
     Heading(1, <<Run(<<"M">>, Bold), Run(<<"L">>, Bold)>>, TitlePos),
     Paragraph(<<Run(<<"c">>, Plain)>>, BodyPos),
     List(TRUE, <<Item(<<Run(<<"x">>, Plain), Run(<<"z">>, Bold)>>, 0),
                  Item(<<Run(<<"y">>, Plain)>>, 0)>>,
          BodyPos),
     Admonition("note", <<>>, <<"n">>, BodyPos),
     Image(BodyPos)}

SeqsUpTo(S, n) == UNION {[1..k -> S] : k \in 0..n}

\* A navigation strip of n chapters, the i-th with a name of i characters.
ChapterName(i) == [j \in 1..i |-> "c"]

NavConfigs ==
    {[navChapters |-> <<>>, activeChapterIndex |-> NoActiveIndex]}
    \cup {[navChapters |-> [i \in 1..n |-> ChapterName(i)], activeChapterIndex |-> a] :
             n \in 1..MaxChapters, a \in {NoActiveIndex} \cup (0..(MaxChapters - 1))}

Metadata(isH1, nav, chapterLabel, slideNumber) ==
    [isH1TitleSlide |-> isH1, navChapters |-> nav.navChapters,
     activeChapterIndex |-> nav.activeChapterIndex,
     chapterLabel |-> chapterLabel, slideNumber |-> slideNumber]

\* activeChapterIndex is the position of a pushed chapter, or null.
ValidNav(nav) == nav.activeChapterIndex < Len(nav.navChapters)

\* Every combination of slide metadata, on a few element lists ...
MetadataSlides ==
    {[metadata |-> Metadata(isH1, nav, cl, sn), elements |-> es] :
        isH1 \in BOOLEAN, nav \in {n \in NavConfigs : ValidNav(n)},
        cl \in {<<>>, <<"c", "h">>}, sn \in {<<>>, <<"7">>},
        es \in {<<>>,
                <<Heading(2, <<Run(<<"b">>, Bold)>>, TitlePos)>>,
                <<Heading(1, <<Run(TocLabel, Bold)>>, TitlePos),
                  List(FALSE, <<Item(<<Run(<<"x">>, Plain)>>, 0)>>, BodyPos)>>}}

\* ... and every element list up to MaxElems, under a few metadata.
ElementSlides ==
    {[metadata |-> m, elements |-> es] :
        m \in {Metadata(FALSE, [navChapters |-> <<>>,
                                activeChapterIndex |-> NoActiveIndex], <<>>, <<>>),
               Metadata(TRUE, [navChapters |-> <<>>,
                               activeChapterIndex |-> NoActiveIndex], <<>>, <<>>),
               Metadata(FALSE, [navChapters |-> <<ChapterName(1)>>,
                                activeChapterIndex |-> 0], <<"c", "h">>, <<"7">>)},
        es \in SeqsUpTo(LoopElements, MaxElems)}

SlideInputs == MetadataSlides \cup ElementSlides

(***************************************************************************)
(* Specification Spec: generatePptx.                                       *)
(***************************************************************************)
Idle == <<>>

Init ==
    /\ pc = "loop"
    /\ total \in 0..MaxSlides
    /\ pos = 0
    /\ lastIndex = -1
    /\ nSlides = 0
    /\ slideInfo = <<>>
    /\ slide = <<>>
    /\ element = Idle /\ dom = Idle /\ elements = Idle /\ node = Idle /\ cli = Idle

\* One iteration of "for (const slideInfo of slideData.slides)": the next
\* slide of the input (extractSlides skips a source slide without content,
\* so an index may jump), pptx.addSlide() and everything drawn on it.
ProcessSlide ==
    /\ pc = "loop"
    /\ pos < total
    /\ \E in \in SlideInputs, index \in {lastIndex + 1, lastIndex + 2} :
          LET si == [index |-> index, metadata |-> in.metadata,
                     elements |-> in.elements]
          IN  /\ slideInfo' = <<si>>
              /\ slide' = LoopBody(si, total)
    /\ nSlides' = nSlides + 1
    /\ pc' = "drawn"
    /\ UNCHANGED <<pos, total, lastIndex, element, dom, elements, node, cli>>

\* The loop moves on to the next element of slideData.slides.
NextSlide ==
    /\ pc = "drawn"
    /\ pos' = pos + 1
    /\ lastIndex' = slideInfo[1].index
    /\ slideInfo' = <<>>
    /\ slide' = <<>>
    /\ pc' = "loop"
    /\ UNCHANGED <<total, nSlides, element, dom, elements, node, cli>>

\* A writeFile that does not wait for the loop to end.
WriteFileEarly ==
    /\ pc = "loop"
    /\ pc' = "written"
    /\ UNCHANGED <<slideInfo, slide, pos, total, lastIndex, nSlides, element,
                   dom, elements, node, cli>>

\* await pptx.writeFile(...) after the loop
WriteFile ==
    /\ pc = "loop"
    /\ pos = total
    /\ pc' = "written"
    /\ UNCHANGED <<slideInfo, slide, pos, total, lastIndex, nSlides, element,
                   dom, elements, node, cli>>

Next == ProcessSlide \/ NextSlide \/ WriteFile

Spec == Init /\ [][Next]_vars

\* generatePptx is straight-line code around a for loop: a step that can be
\* taken is taken.
SpecFair == Spec /\ WF_vars(Next)

(***************************************************************************)
(* Specification SpecRender: one renderer applied to one extracted element.*)
(***************************************************************************)
ColumnPos == Pos(5200, 1500, 4300, 1200, TRUE)

Table(rows, p) == [type |-> "table", rows |-> rows, position |-> p]
Code(code, p) == [type |-> "code", code |-> code, position |-> p]
Blockquote(rs, p) == [type |-> "blockquote", text |-> rs, position |-> p]
ShapeElement(fill, border, p) ==
    [type |-> "shape", position |-> p, fill |-> fill, border |-> border,
     borderRadius |-> 0]

ItemInputs ==
    {Item(rs, level) :
        rs \in {<<Run(<<"x">>, Plain)>>, <<Run(<<"y">>, Bold), Run(<<"z">>, Plain)>>},
        level \in 0..MaxLevel}

ListInputs ==
    {List(ordered, items, p) :
        ordered \in BOOLEAN, items \in SeqsUpTo(ItemInputs, MaxItems),
        p \in {BodyPos, ColumnPos}}

\* The kinds processElement can hand over: the five of the palette, a class
\* that is no kind, and a class that names a property of Object.prototype.
AdmonitionKinds ==
    {"note", "tip", "warning", "error", "question", "info", "constructor"}

AdmonitionInputs ==
    {Admonition(kind, title, content, p) :
        kind \in AdmonitionKinds, title \in {<<>>, <<"T">>},
        content \in {<<>>, <<"C", "h", "e", "c", "k", " ", "X">>},
        p \in {BodyPos, ColumnPos}}

OtherInputs ==
    {Heading(level, <<Run(<<"s">>, Bold)>>, p) :
        level \in 3..6, p \in {BodyPos, ColumnPos}}
    \cup {Paragraph(rs, p) :
             rs \in {<<Run(<<"c">>, Plain)>>, <<Run(<<"c">>, Bold), Run(<<"d">>, Plain)>>},
             p \in {BodyPos, ColumnPos}}
    \cup {Table(rows, BodyPos) :
             rows \in {<<>>,
                       <<<<[text |-> <<"h">>, isHeader |-> TRUE]>>,
                         <<[text |-> <<"v">>, isHeader |-> FALSE]>>>>}}
    \cup {Code(<<"k">>, BodyPos), Blockquote(<<Run(<<"q">>, Plain)>>, BodyPos)}
    \cup {ShapeElement(fill, border, ColumnPos) :
             fill \in {"", "FF0000"},
             border \in {<<>>, <<[color |-> "000000", width |-> 2]>>}}

\* Positions the extractor can hand over besides the two above: a box that
\* spans nearly the whole canvas from its left edge, a narrow box near the
\* bottom of the canvas, each inside a column or not, and a narrower box.
EdgePositions ==
    {Pos(200, 1000, 9600, 300, c) : c \in BOOLEAN}
    \cup {Pos(6000, 5200, 300, 300, c) : c \in BOOLEAN}
    \cup {Pos(6000, 2000, 150, 300, FALSE)}

\* One element of every variant the switch of renderContentSlide has a case
\* for, at each of these positions.
PlacedInputs ==
    UNION {{Heading(3, <<Run(<<"s">>, Bold)>>, p),
            Paragraph(<<Run(<<"c">>, Plain)>>, p),
            List(FALSE, <<Item(<<Run(<<"x">>, Plain)>>, 0)>>, p),
            Admonition("note", <<"T">>, <<"C">>, p),
            Admonition("tip", <<>>, <<"C">>, p),
            Table(<<<<[text |-> <<"h">>, isHeader |-> TRUE]>>>>, p),
            Code(<<"k">>, p),
            Blockquote(<<Run(<<"q">>, Plain)>>, p),
            ShapeElement("FF0000", <<>>, p)} :
           p \in EdgePositions \cup {BodyPos, ColumnPos}}

RenderInputs == ListInputs \cup AdmonitionInputs \cup OtherInputs \cup PlacedInputs

InitRender ==
    /\ pc = "render"
    /\ element \in RenderInputs
    /\ slide = <<>>
    /\ slideInfo = Idle /\ pos = 0 /\ total = 0 /\ lastIndex = -1 /\ nSlides = 0
    /\ dom = Idle /\ elements = Idle /\ node = Idle /\ cli = Idle

Rendered(type, prims) ==
    /\ pc = "render"
    /\ element.type = type
    /\ slide' = prims
    /\ pc' = "rendered"
    /\ UNCHANGED <<slideInfo, pos, total, lastIndex, nSlides, element, dom,
                   elements, node, cli>>

DrawSubheading == Rendered("heading", renderSubheading(element))
DrawList == Rendered("list", renderList(element))
DrawParagraph == Rendered("paragraph", renderParagraph(element))
DrawAdmonition == Rendered("admonition", renderAdmonition(element))
DrawTable == Rendered("table", renderTable(element))
DrawCode == Rendered("code", renderCode(element))
DrawBlockquote == Rendered("blockquote", renderBlockquote(element))
DrawShape == Rendered("shape", renderShape(element))

NextRender ==
    \/ DrawSubheading \/ DrawList \/ DrawParagraph \/ DrawAdmonition
    \/ DrawTable \/ DrawCode \/ DrawBlockquote \/ DrawShape

SpecRender == InitRender /\ [][NextRender]_vars

(***************************************************************************)
(* extractSlides: the rendered document.                                   *)
(*                                                                         *)
(* A node is a text node or an element with its tag, class list, bounding  *)
(* box in pixels, computed style and child nodes.  A computed colour is    *)
(* [legacy, r, g, b, a]: legacy colours serialise as "rgb(r, g, b)" when   *)
(* opaque (a = 100) and "rgba(r, g, b, a)" otherwise, the others in a      *)
(* syntax such as "color(srgb 1 0 0)" that rgbToHex's pattern rejects.     *)
(* A computed font weight is a number ('bold' computes to 700).            *)
(***************************************************************************)
Rgba(r, g, b, a) == [legacy |-> TRUE, r |-> r, g |-> g, b |-> b, a |-> a]
ColorFunction(r, g, b) == [legacy |-> FALSE, r |-> r, g |-> g, b |-> b, a |-> 100]

\* 'rgba(0, 0, 0, 0)', the computed value of "transparent"
TransparentBlack == Rgba(0, 0, 0, 0)
\* 'rgb(0, 0, 0)'
Black == Rgba(0, 0, 0, 100)

HexDigits == <<"0", "1", "2", "3", "4", "5", "6", "7", "8", "9",
               "A", "B", "C", "D", "E", "F">>

\* parseInt(n).toString(16).padStart(2, '0'), upper-cased
Hex2(n) == HexDigits[(n \div 16) + 1] \o HexDigits[(n % 16) + 1]

rgbToHex(c) ==
    IF c = TransparentBlack THEN "FFFFFF"
    ELSE IF ~c.legacy THEN "000000"
    ELSE Hex2(c.r) \o Hex2(c.g) \o Hex2(c.b)

Style(weight, fontStyle, decoration, color, bg, borderWidth) ==
    [fontWeight |-> weight, fontStyle |-> fontStyle, textDecoration |-> decoration,
     color |-> color, backgroundColor |-> bg, borderWidth |-> borderWidth,
     borderColor |-> Black]

NormalStyle == Style(400, "normal", "none", Black, TransparentBlack, 0)
BoldStyle == Style(700, "normal", "none", Black, TransparentBlack, 0)
ItalicStyle == Style(400, "italic", "none", Black, TransparentBlack, 0)

Rect(left, top, width, height) ==
    [left |-> left, top |-> top, width |-> width, height |-> height]

TextNode(t) == [nodeType |-> "text", textContent |-> t]
Elem(tag, classes, rect, style, kids) ==
    [nodeType |-> "element", tagName |-> tag, classList |-> classes,
     rect |-> rect, computed |-> style, childNodes |-> kids]

IsText(n) == n.nodeType = "text"
IsElement(n) == n.nodeType = "element"
HasClass(n, c) == \E i \in 1..Len(n.classList) : n.classList[i] = c

\* Node.textContent
RECURSIVE TextContent(_)
TextContent(n) ==
    IF IsText(n) THEN n.textContent
    ELSE Flatten([i \in 1..Len(n.childNodes) |-> TextContent(n.childNodes[i])])

\* The element descendants of n in document order (what querySelectorAll
\* walks).
RECURSIVE Descendants(_)
Descendants(n) ==
    IF IsText(n) THEN <<>>
    ELSE Flatten([i \in 1..Len(n.childNodes) |->
                    IF IsElement(n.childNodes[i])
                    THEN <<n.childNodes[i]>> \o Descendants(n.childNodes[i])
                    ELSE <<>>])

\* el.querySelectorAll(':scope > tag')
ChildElements(n, tags) ==
    SelectSeq(n.childNodes, LAMBDA k : IsElement(k) /\ k.tagName \in tags)

(***************************************************************************)
(* extractTextWithFormatting                                               *)
(***************************************************************************)
NoStyle == Plain

\* processNode's newStyle: baseStyle overlaid with what node's computed
\* style switches on.
NewStyle(n, baseStyle) ==
    [bold |-> baseStyle.bold \/ n.computed.fontWeight >= 600,
     italic |-> baseStyle.italic \/ n.computed.fontStyle = "italic",
     underline |-> baseStyle.underline \/ n.computed.textDecoration = "underline",
     color |-> IF n.computed.color # Black THEN rgbToHex(n.computed.color)
               ELSE baseStyle.color]

RECURSIVE processNode(_, _)
processNode(n, baseStyle) ==
    IF IsText(n)
    THEN IF Trim(n.textContent) # <<>>
         THEN <<Run(n.textContent, baseStyle)>>
         ELSE <<>>
    ELSE IF n.tagName = "BR"
         THEN <<Run(<<"nl">>, NoStyle)>>
         ELSE Flatten([i \in 1..Len(n.childNodes) |->
                         processNode(n.childNodes[i], NewStyle(n, baseStyle))])

extractTextWithFormatting(el) == processNode(el, NoStyle)

(***************************************************************************)
(* processElement and its helpers.  ctx holds what the closure captures    *)
(* per slide: parentRect (the slide's box) and the scale factors.          *)
(***************************************************************************)
\* slideWidthInches
slideWidthInches == 10000

\* aspectRatio = slideWidth / slideHeight of the first slide's CSS size,
\* slideHeightInches = slideWidthInches / aspectRatio, scaleX =
\* slideWidthInches / parentRect.width, scaleY = slideHeightInches /
\* parentRect.height.  The sizes of the model keep every quotient whole.
Context(cssSize, parentRect) ==
    LET slideHeightInches == (slideWidthInches * cssSize.height) \div cssSize.width
    IN  [parentRect |-> parentRect,
         dimensions |-> [width |-> slideWidthInches, height |-> slideHeightInches],
         scaleX |-> slideWidthInches \div parentRect.width,
         scaleY |-> slideHeightInches \div parentRect.height]

\* The position computed from a bounding box, as getPosition and
\* addColumnBackground compute it.
ScaledBox(rect, ctx) ==
    [x |-> (rect.left - ctx.parentRect.left) * ctx.scaleX,
     y |-> (rect.top - ctx.parentRect.top) * ctx.scaleY,
     w |-> rect.width * ctx.scaleX,
     h |-> rect.height * ctx.scaleY]

getPosition(el, inColumn, ctx) ==
    LET b == ScaledBox(el.rect, ctx)
    IN  Pos(b.x, b.y, b.w, b.h, inColumn)

\* hasBg / hasBorder of the generic DIV rule and of addColumnBackground
HasBg(n) == n.computed.backgroundColor # TransparentBlack
HasBorder(n) == n.computed.borderWidth > 0

\* The Shape both rules push.  pxToPoints (generic DIV) and "* 0.75"
\* (column) give the same border width; it is kept in 1/100 point.
BackgroundShape(n, position) ==
    ShapeElement(IF HasBg(n) THEN rgbToHex(n.computed.backgroundColor) ELSE "",
                 IF HasBorder(n)
                 THEN <<[color |-> rgbToHex(n.computed.borderColor),
                         width |-> n.computed.borderWidth * 75]>>
                 ELSE <<>>,
                 position)

\* addColumnBackground(col), col being <<>> (null) or <<the column>>
addColumnBackground(col, ctx) ==
    IF col = <<>> THEN <<>>
    ELSE IF HasBg(col[1]) \/ HasBorder(col[1])
         THEN <<BackgroundShape(col[1], ScaledBox(col[1].rect, ctx))>>
         ELSE <<>>

\* [class*="highlight-"] and c.startsWith('highlight-'), on the class names
\* of the model.
colorMap ==
    [c \in {"highlight-red", "highlight-orange", "highlight-green",
            "highlight-blue", "highlight-purple"} |->
        CASE c = "highlight-red" -> "C0392B"
          [] c = "highlight-orange" -> "E67E22"
          [] c = "highlight-green" -> "27AE60"
          [] c = "highlight-blue" -> "2980B9"
          [] c = "highlight-purple" -> "8E44AD"]

StartsWithHighlight(c) == c \in DOMAIN colorMap \cup {"highlight-pink"}
ContainsHighlight(c) == StartsWithHighlight(c) \/ c = "no-highlight-x"

\* The highlight colour extractListItems gives the runs of li ("" : none).
HighlightColor(li) ==
    LET spans == SelectSeq(Descendants(li),
                           LAMBDA d : \E i \in 1..Len(d.classList) :
                                         ContainsHighlight(d.classList[i]))
        classes == SelectSeq(spans[1].classList, StartsWithHighlight)
    IN  IF spans = <<>> THEN ""
        ELSE IF classes = <<>> THEN ""
        ELSE IF classes[1] \in DOMAIN colorMap THEN colorMap[classes[1]]
        ELSE ""

\* The runs extractListItems collects from li's own content.
ItemRuns(li) ==
    LET own == Flatten([i \in 1..Len(li.childNodes) |->
                   LET child == li.childNodes[i]
                   IN  IF IsText(child)
                       THEN IF Trim(child.textContent) # <<>>
                            THEN <<Run(Trim(child.textContent), NoStyle)>>
                            ELSE <<>>
                       ELSE IF child.tagName \notin {"UL", "OL"}
                            THEN extractTextWithFormatting(child)
                            ELSE <<>>])
        hl == HighlightColor(li)
    IN  IF hl = "" THEN own
        ELSE [j \in 1..Len(own) |->
                 Run(own[j].text,
                     [bold |-> own[j].options.bold, italic |-> own[j].options.italic,
                      underline |-> own[j].options.underline,
                      color |-> own[j].options.color, highlightColor |-> hl])]

RECURSIVE extractListItems(_, _)
extractListItems(listEl, level) ==
    LET listItems == ChildElements(listEl, {"LI"})
    IN  Flatten([i \in 1..Len(listItems) |->
            LET li == listItems[i]
                nestedLists == ChildElements(li, {"UL", "OL"})
            IN  (IF ItemRuns(li) # <<>> THEN <<Item(ItemRuns(li), level)>> ELSE <<>>)
                \o Flatten([k \in 1..Len(nestedLists) |->
                              extractListItems(nestedLists[k], level + 1)])])

\* The content string of an admonition: extractAdmonitionContent over the
\* children, the parts joined by newlines.  titleEl is <<>> or <<the node, cli>>.
RECURSIVE AdmonitionParts(_, _)
AdmonitionParts(n, titleEl) ==
    IF titleEl # <<>> /\ n = titleEl[1] THEN <<>>
    ELSE IF IsText(n)
    THEN IF Trim(n.textContent) # <<>> THEN <<Trim(n.textContent)>> ELSE <<>>
    ELSE IF n.tagName \in {"UL", "OL"}
    THEN LET items == ChildElements(n, {"LI"})
         IN  [i \in 1..Len(items) |->
                 (IF n.tagName = "OL" THEN Decimal(i) \o <<".", " ">> ELSE Bullet)
                 \o Trim(TextContent(items[i]))]
    ELSE IF n.tagName = "P"
    THEN IF Trim(TextContent(n)) # <<>> THEN <<Trim(TextContent(n))>> ELSE <<>>
    ELSE Flatten([i \in 1..Len(n.childNodes) |->
                    AdmonitionParts(n.childNodes[i], titleEl)])

\* Array.prototype.join('\n')
RECURSIVE JoinLines(_)
JoinLines(parts) ==
    IF parts = <<>> THEN <<>>
    ELSE IF Len(parts) = 1 THEN parts[1]
    ELSE parts[1] \o <<"nl">> \o JoinLines(Tail(parts))

ExtractAdmonition(el, position) ==
    LET kinds == SelectSeq(el.classList, LAMBDA c : c # "admonition")
        type == IF kinds = <<>> THEN "note" ELSE kinds[1]
        titleEl == First(SelectSeq(Descendants(el), LAMBDA d : HasClass(d, "admonitionTitle")))
        title == IF titleEl = <<>> THEN <<>> ELSE Trim(TextContent(titleEl[1]))
    IN  Admonition(type, title,
                   JoinLines(Flatten([i \in 1..Len(el.childNodes) |->
                                        AdmonitionParts(el.childNodes[i], titleEl)])),
                   position)

ExtractTable(el, position) ==
    LET trs == SelectSeq(Descendants(el), LAMBDA d : d.tagName = "TR")
        cells(tr) == SelectSeq(Descendants(tr), LAMBDA d : d.tagName \in {"TH", "TD"})
        row(tr) == [c \in 1..Len(cells(tr)) |->
                       [text |-> Trim(TextContent(cells(tr)[c])),
                        isHeader |-> cells(tr)[c].tagName = "TH"]]
    IN  Table(SelectSeq([r \in 1..Len(trs) |-> row(trs[r])], LAMBDA r : r # <<>>),
              position)

ExtractTocList(el, position) ==
    LET lis == ChildElements(el, {"LI"})
        linkText(li) ==
            LET as == SelectSeq(Descendants(li), LAMBDA d : d.tagName = "A")
            IN  IF as # <<>> /\ Trim(TextContent(as[1])) # <<>>
                THEN Trim(TextContent(as[1]))
                ELSE Trim(TextContent(li))
    IN  List(FALSE, [i \in 1..Len(lis) |-> Item(<<Run(linkText(lis[i]), NoStyle)>>, 0)],
             position)

\* parseInt(tagName[1])
HeadingLevel(tagName) ==
    CASE tagName = "H1" -> 1 [] tagName = "H2" -> 2 [] tagName = "H3" -> 3
      [] tagName = "H4" -> 4 [] tagName = "H5" -> 5 [] tagName = "H6" -> 6

\* processElement(el, depth, inColumn): the elements one node contributes, in
\* push order.  next is <<>> or <<el.nextSibling>>.  The rules are tried in
\* the order of the source and the first that matches decides.
RECURSIVE processElement(_, _, _, _)
processElement(el, next, inColumn, ctx) ==
    LET tagName == el.tagName
        position == getPosition(el, inColumn, ctx)
        children(parent, inCol) ==
            Flatten([i \in 1..Len(parent.childNodes) |->
                IF IsElement(parent.childNodes[i])
                THEN processElement(parent.childNodes[i],
                                    IF i < Len(parent.childNodes)
                                    THEN <<parent.childNodes[i + 1]>> ELSE <<>>,
                                    inCol, ctx)
                ELSE <<>>])
    IN  IF position.w = 0 \/ position.h = 0 THEN <<>>
        ELSE IF tagName = "A" /\ HasClass(el, "target") THEN <<>>
        ELSE IF tagName = "DIV" /\ HasClass(el, "title")
        THEN <<Heading(1, extractTextWithFormatting(el), position)>>
        ELSE IF tagName = "DIV" /\ HasClass(el, "toc-title")
        THEN <<Heading(1, <<Run(Trim(TextContent(el)), Bold)>>, position)>>
        ELSE IF tagName = "DIV" /\ HasClass(el, "afterTitles")
        THEN IF next # <<>> /\ IsText(next[1]) /\ Trim(next[1].textContent) # <<>>
             THEN <<Paragraph(<<Run(Trim(next[1].textContent), NoStyle)>>,
                              [x |-> position.x, y |-> position.y + 500,
                               w |-> position.w, h |-> 500, inColumn |-> FALSE])>>
             ELSE <<>>
        ELSE IF tagName = "UL" /\ HasClass(el, "toc-list")
        THEN <<ExtractTocList(el, position)>>
        ELSE IF tagName \in {"H1", "H2", "H3", "H4", "H5", "H6"}
        THEN <<Heading(HeadingLevel(tagName), extractTextWithFormatting(el), position)>>
        ELSE IF tagName = "P"
        THEN IF Trim(TextContent(el)) = <<>> THEN <<>>
             ELSE IF \E i \in 1..Len(Descendants(el)) :
                        Descendants(el)[i].tagName = "TITLE" THEN <<>>
             ELSE <<Paragraph(extractTextWithFormatting(el), position)>>
        ELSE IF tagName \in {"UL", "OL"}
        THEN <<List(tagName = "OL", extractListItems(el, 0), position)>>
        ELSE IF tagName = "IMG" THEN <<Image(position)>>
        ELSE IF HasClass(el, "admonition") THEN <<ExtractAdmonition(el, position)>>
        ELSE IF tagName = "PRE" \/ HasClass(el, "listing")
        THEN LET codeEl == First(SelectSeq(Descendants(el), LAMBDA d : d.tagName = "CODE"))
             IN  <<Code(TextContent(IF codeEl = <<>> THEN el ELSE codeEl[1]), position)>>
        ELSE IF tagName = "TABLE" THEN <<ExtractTable(el, position)>>
        ELSE IF tagName = "BLOCKQUOTE"
        THEN <<Blockquote(extractTextWithFormatting(el), position)>>
        ELSE IF HasClass(el, "columns-container")
        THEN LET leftCol == First(SelectSeq(Descendants(el), LAMBDA d : HasClass(d, "column-left")))
                 rightCol == First(SelectSeq(Descendants(el), LAMBDA d : HasClass(d, "column-right")))
             IN  addColumnBackground(leftCol, ctx) \o addColumnBackground(rightCol, ctx)
                 \o (IF leftCol = <<>> THEN <<>> ELSE children(leftCol[1], TRUE))
                 \o (IF rightCol = <<>> THEN <<>> ELSE children(rightCol[1], TRUE))
        ELSE IF tagName = "DIV"
        THEN (IF HasBg(el) \/ HasBorder(el) THEN <<BackgroundShape(el, position)>>
              ELSE <<>>)
             \o children(el, inColumn)
        ELSE <<>>

\* An extraction that hands every element of the subtree to processElement.
ExtractElementsDeep(slideContent, ctx) ==
    LET kids == slideContent.childNodes
        all == Flatten([i \in 1..Len(kids) |->
                          IF IsElement(kids[i])
                          THEN <<kids[i]>> \o Descendants(kids[i]) ELSE <<>>])
    IN  Flatten([i \in 1..Len(all) |-> processElement(all[i], <<>>, FALSE, ctx)])

\* slideContent.childNodes.forEach(child => processElement(child))
ExtractElements(slideContent, ctx) ==
    Flatten([i \in 1..Len(slideContent.childNodes) |->
        IF IsElement(slideContent.childNodes[i])
        THEN processElement(slideContent.childNodes[i],
                            IF i < Len(slideContent.childNodes)
                            THEN <<slideContent.childNodes[i + 1]>> ELSE <<>>,
                            FALSE, ctx)
        ELSE <<>>])

(***************************************************************************)
(* The extractor's input: rendered slides.  A slide is the CSS size of     *)
(* the deck, the slide's bounding box and the child nodes of its           *)
(* .slide-content.                                                         *)
(***************************************************************************)
MaxNodes == 2
MaxKids == 3

\* Bounding boxes: one with area, one without height, one without width.
Box == Rect(200, 100, 400, 50)
FlatBox == Rect(200, 100, 400, 0)
ThinBox == Rect(200, 100, 0, 50)

\* A 16:9 deck and a 4:3 deck, each rendered at 2000 px width.
Layouts ==
    {[cssSize |-> [width |-> 1600, height |-> 900],
      parentRect |-> Rect(0, 0, 2000, 1125)],
     [cssSize |-> [width |-> 1200, height |-> 900],
      parentRect |-> Rect(0, 0, 2000, 1500)]}

T(s) == TextNode(s)
PNode(kids) == Elem("P", <<>>, Box, NormalStyle, kids)
LiNode(classes, kids) == Elem("LI", classes, Box, NormalStyle, kids)

\* Computed backgrounds: transparent, opaque red, red with alpha 0, and a
\* colour the browser serialises as color(srgb 1 0 0).
Backgrounds ==
    {TransparentBlack, Rgba(255, 0, 0, 100), Rgba(255, 0, 0, 0),
     ColorFunction(255, 0, 0)}

BoxStyles ==
    {Style(400, "normal", "none", Black, bg, bw) :
        bg \in Backgrounds, bw \in {0, 2}}

\* Generic containers.
DivNodes ==
    {Elem("DIV", <<>>, r, st, kids) :
        r \in {Box, FlatBox}, st \in BoxStyles,
        kids \in {<<>>, <<PNode(<<T(<<"a">>)>>)>>}}

\* Two-column containers: the left column takes every style and box, the
\* right column is absent or plain.
ColumnNodes ==
    {Elem("DIV", <<"columns-container">>, Box, NormalStyle,
          <<Elem("DIV", <<"column-left">>, r, st, <<PNode(<<T(<<"a">>)>>)>>)>> \o right) :
        r \in {Box, FlatBox, ThinBox}, st \in BoxStyles,
        right \in {<<>>,
                   <<Elem("DIV", <<"column-right">>, Box, NormalStyle,
                          <<Elem("H3", <<>>, Box, BoldStyle, <<T(<<"b">>)>>)>>)>>}}

\* One node, at least, for every other rule of processElement.
OtherNodes ==
    {Elem("A", <<"target">>, Box, NormalStyle, <<>>),
     Elem("DIV", <<"title">>, Box, BoldStyle, <<T(<<"t">>)>>),
     Elem("DIV", <<"toc-title">>, Box, NormalStyle, <<T(<<" ">> \o TocLabel)>>),
     Elem("UL", <<"toc-list">>, Box, NormalStyle,
          <<LiNode(<<>>, <<Elem("A", <<>>, Box, NormalStyle, <<T(<<"a">>)>>)>>),
            LiNode(<<>>, <<T(<<"b">>)>>)>>),
     Elem("H1", <<>>, Box, BoldStyle, <<T(<<"a">>)>>),
     Elem("H2", <<>>, Box, BoldStyle, <<T(TocLabel)>>),
     Elem("H6", <<>>, FlatBox, BoldStyle, <<T(<<"a">>)>>),
     PNode(<<T(<<"a">>)>>),
     PNode(<<T(<<" ">>)>>),
     PNode(<<Elem("TITLE", <<>>, Box, NormalStyle, <<T(<<"a">>)>>)>>),
     Elem("UL", <<>>, Box, NormalStyle,
          <<LiNode(<<>>, <<T(<<"a">>),
                           Elem("OL", <<>>, Box, NormalStyle,
                                <<LiNode(<<>>, <<T(<<"b">>)>>)>>)>>),
            LiNode(<<>>, <<Elem("SPAN", <<"highlight-red">>, Box, NormalStyle,
                                <<T(<<"c">>)>>)>>)>>),
     Elem("OL", <<>>, Box, NormalStyle, <<LiNode(<<>>, <<T(<<"a">>)>>)>>),
     Elem("IMG", <<>>, Box, NormalStyle, <<>>),
     Elem("DIV", <<"admonition", "tip">>, Box, NormalStyle,
          <<Elem("DIV", <<"admonitionTitle">>, Box, BoldStyle, <<T(<<"t">>)>>),
            PNode(<<T(<<"a">>)>>)>>),
     Elem("DIV", <<"admonition">>, Box, NormalStyle,
          <<Elem("UL", <<>>, Box, NormalStyle, <<LiNode(<<>>, <<T(<<"a">>)>>)>>)>>),
     Elem("DIV", <<"admonition", "constructor">>, Box, NormalStyle, <<T(<<"a">>)>>),
     Elem("PRE", <<>>, Box, NormalStyle,
          <<Elem("CODE", <<>>, Box, NormalStyle, <<T(<<"x", " ">>)>>)>>),
     Elem("DIV", <<"listing">>, Box, NormalStyle, <<T(<<"x">>)>>),
     Elem("TABLE", <<>>, Box, NormalStyle,
          <<Elem("TR", <<>>, Box, NormalStyle,
                 <<Elem("TH", <<>>, Box, BoldStyle, <<T(<<"h">>)>>),
                   Elem("TD", <<>>, Box, NormalStyle, <<T(<<"d">>)>>)>>),
            Elem("TR", <<>>, Box, NormalStyle, <<>>)>>),
     Elem("BLOCKQUOTE", <<>>, Box, ItalicStyle, <<T(<<"q">>)>>),
     Elem("SPAN", <<>>, Box, NormalStyle, <<T(<<"a">>)>>)}

\* Nodes that meet siblings: the afterTitles DIV with and without area, the
\* text that may follow it, and a heading.
SiblingNodes ==
    {Elem("DIV", <<"afterTitles">>, Box, NormalStyle, <<>>),
     Elem("DIV", <<"afterTitles">>, FlatBox, NormalStyle, <<>>),
     T(<<" ", "s", " ">>),
     T(<<" ">>),
     Elem("H1", <<>>, Box, BoldStyle, <<T(<<"a">>)>>)}

\* List items nested at most d lists deep: own text or none, followed by a
\* nested list of one item or by nothing.
RECURSIVE ItemNodes(_)
ItemNodes(d) ==
    {LiNode(<<>>, own \o nested) :
        own \in {<<>>, <<T(<<"a">>)>>},
        nested \in {<<>>} \cup
                   (IF d = 0 THEN {}
                    ELSE {<<Elem("UL", <<>>, Box, NormalStyle, <<li>>)>> :
                            li \in ItemNodes(d - 1)})}

ListNodes ==
    {Elem(tag, <<>>, Box, NormalStyle, lis) :
        tag \in {"UL", "OL"},
        lis \in SeqsUpTo(ItemNodes(MaxLevel), MaxNodes) \ {<<>>}}

\* Nodes on which several rules of processElement could apply: every tag
\* with every marker class, each holding a column that holds a paragraph.
MarkerClassLists ==
    {<<>>, <<"target">>, <<"title">>, <<"toc-title">>, <<"afterTitles">>,
     <<"toc-list">>, <<"admonition">>, <<"listing">>, <<"columns-container">>,
     <<"title", "admonition">>, <<"admonition", "listing">>,
     <<"listing", "columns-container">>, <<"admonition", "columns-container">>}

MarkedNodes ==
    {Elem(tag, classes, Box, NormalStyle,
          <<Elem("DIV", <<"column-left">>, Box, NormalStyle, <<PNode(<<T(<<"a">>)>>)>>)>>) :
        tag \in {"A", "DIV", "UL", "OL", "H2", "P", "IMG", "PRE", "TABLE",
                 "BLOCKQUOTE", "SPAN"},
        classes \in MarkerClassLists}

\* What a column region may hold: a paragraph under MaxLevel generic
\* containers, a heading, an afterTitles DIV followed by its text, a second
\* columns-container whose column has a background.
RECURSIVE Wrapped(_, _)
Wrapped(n, d) ==
    IF d = 0 THEN n ELSE Elem("DIV", <<>>, Box, NormalStyle, <<Wrapped(n, d - 1)>>)

RegionContents ==
    {<<Wrapped(PNode(<<T(<<"a">>)>>), d)>> : d \in 0..MaxLevel}
    \cup {<<Elem("H3", <<>>, Box, BoldStyle, <<T(<<"b">>)>>)>>,
          <<Elem("DIV", <<"afterTitles">>, Box, NormalStyle, <<>>), T(<<"s">>)>>,
          <<Elem("DIV", <<"columns-container">>, Box, NormalStyle,
                 <<Elem("DIV", <<"column-right">>, Box,
                        Style(400, "normal", "none", Black, Rgba(255, 0, 0, 100), 0),
                        <<PNode(<<T(<<"a">>)>>)>>)>>)>>}

\* A columns-container with one plain region, and the same content in a
\* generic container that is no column.
RegionNodes ==
    {Elem("DIV", <<"columns-container">>, Box, NormalStyle,
          <<Elem("DIV", <<side>>, Box, NormalStyle, kids)>>) :
        side \in {"column-left", "column-right"}, kids \in RegionContents}
    \cup {Elem("DIV", <<>>, Box, NormalStyle,
               <<Elem("DIV", <<"column-left">>, Box, NormalStyle, kids)>>) :
            kids \in RegionContents \ {<<n>> : n \in {Elem("DIV", <<"columns-container">>, Box, NormalStyle,
                 <<Elem("DIV", <<"column-right">>, Box,
                        Style(400, "normal", "none", Black, Rgba(255, 0, 0, 100), 0),
                        <<PNode(<<T(<<"a">>)>>)>>)>>)}}}

\* Containers whose own box has collapsed to zero height or zero width
\* around a region and a paragraph that both have area.
CollapsedNodes ==
    {Elem("DIV", cls, r, NormalStyle,
          <<Elem("DIV", <<"column-left">>, Box, NormalStyle, <<PNode(<<T(<<"a">>)>>)>>)>>) :
        cls \in {<<>>, <<"columns-container">>}, r \in {FlatBox, ThinBox}}

\* Admonitions: the kind class alone, absent, after or before a class that
\* is no kind; the title as a direct child, inside a generic wrapper, inside
\* a paragraph, inside a list item, or absent.
TitleNode == Elem("DIV", <<"admonitionTitle">>, Box, BoldStyle, <<T(<<"t">>)>>)

AdmonitionClassLists ==
    {<<"admonition", "warning">>, <<"admonition">>,
     <<"admonition", "fancy", "tip">>, <<"big", "admonition", "error">>}

AdmonitionBodies ==
    {<<TitleNode, PNode(<<T(<<"a">>)>>)>>,
     <<Elem("DIV", <<>>, Box, NormalStyle, <<TitleNode>>), PNode(<<T(<<"a">>)>>)>>,
     <<PNode(<<TitleNode, T(<<"a">>)>>)>>,
     <<Elem("UL", <<>>, Box, NormalStyle, <<LiNode(<<>>, <<TitleNode, T(<<"a">>)>>)>>)>>,
     <<PNode(<<T(<<"a">>)>>)>>,
     <<T(<<" ", "b", " ">>), PNode(<<T(<<"a">>)>>)>>}

AdmonitionNodes ==
    {Elem("DIV", classes, Box, NormalStyle, kids) :
        classes \in AdmonitionClassLists, kids \in AdmonitionBodies}

\* Lists with highlight markers: on the item's own span, on a nested item
\* only, on a sibling item only, and an unknown marker before a known one.
Marked(class, t) == Elem("SPAN", <<class>>, Box, NormalStyle, <<T(<<t>>)>>)

HighlightNodes ==
    {Elem("UL", <<>>, Box, NormalStyle, lis) :
        lis \in {<<LiNode(<<>>, <<T(<<"a">>),
                                  Elem("UL", <<>>, Box, NormalStyle,
                                       <<LiNode(<<>>, <<Marked("highlight-red", "c")>>)>>)>>)>>,
                 <<LiNode(<<>>, <<Marked("highlight-blue", "c"), T(<<"a">>)>>)>>,
                 <<LiNode(<<>>, <<T(<<"a">>)>>),
                   LiNode(<<>>, <<Marked("highlight-green", "c")>>)>>,
                 <<LiNode(<<>>, <<Marked("highlight-pink", "p"),
                                  Marked("highlight-red", "c")>>)>>,
                 <<LiNode(<<>>, <<Marked("highlight-purple", "c"),
                                  Elem("UL", <<>>, Box, NormalStyle,
                                       <<LiNode(<<>>, <<T(<<"a">>)>>)>>)>>)>>}}

\* A paragraph and a heading in the lowest part of a 4:3 slide (below the
\* lower edge of a 16:9 slide).
LowBox == Rect(200, 1300, 400, 100)

LowNodes ==
    {Elem("P", <<>>, LowBox, NormalStyle, <<T(<<"a">>)>>),
     Elem("H3", <<>>, LowBox, BoldStyle, <<T(<<"b">>)>>)}

SlideContents ==
    {<<n>> : n \in LowNodes \cup HighlightNodes \cup DivNodes \cup ColumnNodes \cup OtherNodes \cup ListNodes
                   \cup MarkedNodes \cup RegionNodes \cup CollapsedNodes
                   \cup AdmonitionNodes}
    \cup (SeqsUpTo(SiblingNodes, MaxNodes) \ {<<>>})

DomInputs ==
    {[cssSize |-> l.cssSize, parentRect |-> l.parentRect, childNodes |-> c] :
        l \in Layouts, c \in SlideContents}

InitExtract ==
    /\ pc = "page"
    /\ dom \in DomInputs
    /\ elements = Idle
    /\ slideInfo = <<>> /\ slide = <<>> /\ pos = 0 /\ total = 0
    /\ lastIndex = -1 /\ nSlides = 0 /\ element = Idle /\ node = Idle /\ cli = Idle

\* The body of slides.forEach for one slide that has a .slide-content: every
\* child element goes through processElement.
ExtractSlide ==
    /\ pc = "page"
    /\ elements' = ExtractElements(dom, Context(dom.cssSize, dom.parentRect))
    /\ pc' = "extracted"
    /\ UNCHANGED <<slideInfo, slide, pos, total, lastIndex, nSlides, element,
                   dom, node, cli>>

NextExtract == ExtractSlide

SpecExtract == InitExtract /\ [][NextExtract]_vars

(***************************************************************************)
(* Text-bearing nodes: a heading, a paragraph or a blockquote over any mix *)
(* of text nodes, whitespace-only text nodes, inline elements and line     *)
(* breaks.                                                                 *)
(***************************************************************************)
InlineNodes ==
    {T(<<"a">>), T(<<" ">>), T(<<" ", "b", " ">>),
     Elem("BR", <<>>, Box, NormalStyle, <<>>),
     Elem("B", <<>>, Box, BoldStyle, <<T(<<"c">>)>>),
     Elem("I", <<>>, Box, ItalicStyle, <<T(<<"d", " ">>)>>),
     Elem("SPAN", <<>>, Box, NormalStyle, <<T(<<" ">>)>>),
     Elem("B", <<>>, Box, BoldStyle,
          <<Elem("SPAN", <<>>, Box, NormalStyle, <<T(<<"e">>)>>)>>),
     Elem("U", <<>>, Box, Style(400, "normal", "underline", Black, TransparentBlack, 0),
          <<Elem("I", <<>>, Box, ItalicStyle, <<T(<<"f">>)>>)>>)}

TextNodes ==
    {Elem(tag, <<>>, Box, NormalStyle, kids) :
        tag \in {"H2", "P", "BLOCKQUOTE"},
        kids \in SeqsUpTo(InlineNodes, MaxKids)}

TextContext ==
    Context([width |-> 1600, height |-> 900], Rect(0, 0, 2000, 1125))

InitText ==
    /\ pc = "node"
    /\ node \in TextNodes
    /\ elements = Idle
    /\ slideInfo = <<>> /\ slide = <<>> /\ pos = 0 /\ total = 0
    /\ lastIndex = -1 /\ nSlides = 0 /\ element = Idle /\ dom = Idle /\ cli = Idle

\* processElement on a text-bearing node: the element it pushes carries
\* extractTextWithFormatting(node) as its text.
ExtractText ==
    /\ pc = "node"
    /\ elements' = processElement(node, <<>>, FALSE, TextContext)
    /\ pc' = "text"
    /\ UNCHANGED <<slideInfo, slide, pos, total, lastIndex, nSlides, element,
                   dom, node, cli>>

NextText == ExtractText

SpecText == InitText /\ [][NextText]_vars

(***************************************************************************)
(* Specification SpecMain: the command line, main() of index.js.  cli      *)
(* holds the run: what it was given (the number of arguments, whether the  *)
(* input file and the default output directory exist, how extractSlides    *)
(* and generatePptx will end) and what it has done (the calls made, the    *)
(* messages printed, the files written, the exit status).                  *)
(***************************************************************************)
\* The ways extractSlides ends: it returns the slide data, or one of its
\* awaited steps throws.
ExtractOutcomes ==
    {"ok", "launchFails", "gotoTimeout", "noSlideSelector", "evaluateThrows"}

\* The ways generatePptx ends: the file is written, or writeFile throws.
GenerateOutcomes == {"ok", "writeFails"}

CliInputs ==
    {[argc |-> n, inputExists |-> ie, outputDirExists |-> de,
      extract |-> eo, generate |-> go,
      calls |-> <<>>, stdout |-> <<>>, stderr |-> <<>>, madeDir |-> FALSE,
      browserOpen |-> FALSE, written |-> FALSE, exitCode |-> <<>>] :
        n \in 0..2, ie \in BOOLEAN, de \in BOOLEAN,
        eo \in ExtractOutcomes, go \in GenerateOutcomes}

InitMain ==
    /\ pc = "main"
    /\ cli \in CliInputs
    /\ slideInfo = <<>> /\ slide = <<>> /\ pos = 0 /\ total = 0
    /\ lastIndex = -1 /\ nSlides = 0 /\ element = Idle /\ dom = Idle
    /\ elements = Idle /\ node = Idle

MainUnchanged ==
    UNCHANGED <<slideInfo, slide, pos, total, lastIndex, nSlides, element, dom,
                elements, node>>

\* process.exit(code): nothing of main runs after it.
Exit(c, code) == [c EXCEPT !.exitCode = <<code>>]

\* if (args.length === 0) { usage; process.exit(0) }
CheckArguments ==
    /\ pc = "main"
    /\ IF cli.argc = 0
       THEN /\ cli' = Exit([cli EXCEPT !.stdout = Append(@, "usage")], 0)
            /\ pc' = "exited"
       ELSE /\ cli' = cli
            /\ pc' = "checkInput"
    /\ MainUnchanged

\* if (!fs.existsSync(inputPath)) { error; process.exit(1) }
CheckInput ==
    /\ pc = "checkInput"
    /\ IF ~cli.inputExists
       THEN /\ cli' = Exit([cli EXCEPT !.stderr = Append(@, "Input file not found")], 1)
            /\ pc' = "exited"
       ELSE /\ cli' = cli
            /\ pc' = "output"
    /\ MainUnchanged

\* The output path: args[1], or <input name>.pptx in the output directory,
\* which is created if it is missing.  Then the banner.
DetermineOutput ==
    /\ pc = "output"
    /\ cli' = [cli EXCEPT
                 !.madeDir = (cli.argc < 2 /\ ~cli.outputDirExists),
                 !.stdout = Append(@, "banner")]
    /\ pc' = "extract"
    /\ MainUnchanged

\* A main that goes on to generatePptx whatever extractSlides did.
AfterExtractAlwaysGenerate(outcome) == "generate"

\* Where main goes after "await extractSlides(inputPath)".
AfterExtract(outcome) == IF outcome = "ok" THEN "generate" ELSE "catch"

\* const slideData = await extractSlides(inputPath): the browser is
\* launched, the page opened and evaluated, and the browser closed on the
\* way out only when every step succeeded.
CallExtractSlides ==
    /\ pc = "extract"
    /\ cli' = [cli EXCEPT
                 !.calls = Append(@, "extractSlides"),
                 !.browserOpen = cli.extract \notin {"ok", "launchFails"},
                 !.stdout = IF cli.extract = "ok" THEN Append(@, "extracted") ELSE @]
    /\ pc' = AfterExtract(cli.extract)
    /\ MainUnchanged

\* await generatePptx(slideData, outputPath), then the summary.
CallGeneratePptx ==
    /\ pc = "generate"
    /\ cli' = [cli EXCEPT
                 !.calls = Append(@, "generatePptx"),
                 !.written = (cli.generate = "ok"),
                 !.stdout = IF cli.generate = "ok" THEN Append(@, "complete") ELSE @]
    /\ pc' = IF cli.generate = "ok" THEN "returned" ELSE "catch"
    /\ MainUnchanged

\* catch (error) { message; stack trace; process.exit(1) }
CatchError ==
    /\ pc = "catch"
    /\ cli' = Exit([cli EXCEPT !.stderr = @ \o <<"Error during conversion", "Stack trace">>], 1)
    /\ pc' = "exited"
    /\ MainUnchanged

\* main() returns and node exits with status 0.
Return ==
    /\ pc = "returned"
    /\ cli' = Exit(cli, 0)
    /\ pc' = "exited"
    /\ MainUnchanged

NextMain ==
    \/ CheckArguments \/ CheckInput \/ DetermineOutput
    \/ CallExtractSlides \/ CallGeneratePptx \/ CatchError \/ Return

SpecMain == InitMain /\ [][NextMain]_vars

(***************************************************************************)
(* Specification SpecBrowser: extractSlides from chromium.launch to its    *)
(* return, one awaited call per step.  The variable cli holds the call's   *)
(* state: the form of htmlPath, the awaited call that rejects (or "none"), *)
(* the calls made so far, and whether a browser was launched and closed.   *)
(***************************************************************************)
AwaitedCalls ==
    <<"launch", "newContext", "newPage", "goto", "waitForSelector",
      "waitForTimeout", "evaluate", "close">>

PathForms == {"local", "relative", "fileUrl", "httpUrl"}

BrowserInputs ==
    {[htmlPath |-> h, rejects |-> r, calls |-> <<>>, fileUrl |-> "",
      launched |-> FALSE, closed |-> FALSE] :
        h \in PathForms,
        r \in {"none"} \cup {AwaitedCalls[i] : i \in 1..Len(AwaitedCalls)}}

InitBrowser ==
    /\ pc = "launch"
    /\ cli \in BrowserInputs
    /\ slideInfo = <<>> /\ slide = <<>> /\ pos = 0 /\ total = 0
    /\ lastIndex = -1 /\ nSlides = 0 /\ element = Idle /\ dom = Idle
    /\ elements = Idle /\ node = Idle

\* await <call>: the call is made; if it rejects, the exception leaves
\* extractSlides at once (the function has no try, catch or finally),
\* otherwise the function goes on with the state after the call.
Await(call, after, nextPc) ==
    /\ pc = call
    /\ IF cli.rejects = call
       THEN /\ cli' = [cli EXCEPT !.calls = Append(@, call)]
            /\ pc' = "thrown"
       ELSE /\ cli' = [after EXCEPT !.calls = Append(@, call)]
            /\ pc' = nextPc
    /\ MainUnchanged

Launch == Await("launch", [cli EXCEPT !.launched = TRUE], "newContext")
NewContext == Await("newContext", cli, "newPage")
NewPage == Await("newPage", cli, "resolve")

\* "Convert to file:// URL if it's a local path"
ResolveUrl ==
    /\ pc = "resolve"
    /\ cli' = [cli EXCEPT
                 !.fileUrl = IF cli.htmlPath \in {"fileUrl", "httpUrl"}
                             THEN cli.htmlPath ELSE "fileUrl"]
    /\ pc' = "goto"
    /\ MainUnchanged

Goto == Await("goto", cli, "waitForSelector")
WaitForSelector == Await("waitForSelector", cli, "waitForTimeout")
WaitForTimeout == Await("waitForTimeout", cli, "evaluate")
Evaluate == Await("evaluate", cli, "close")
CloseBrowser == Await("close", [cli EXCEPT !.closed = TRUE], "return")

\* return slideData
ReturnSlideData ==
    /\ pc = "return"
    /\ cli' = cli
    /\ pc' = "returned"
    /\ MainUnchanged

NextBrowser ==
    \/ Launch \/ NewContext \/ NewPage \/ ResolveUrl \/ Goto
    \/ WaitForSelector \/ WaitForTimeout \/ Evaluate \/ CloseBrowser
    \/ ReturnSlideData

SpecBrowser == InitBrowser /\ [][NextBrowser]_vars

(***************************************************************************)
(* Claims.  A slide of generatePptx is judged in the state pc = "drawn",   *)
(* where slideInfo[1] is the slide and the variable slide holds everything *)
(* the iteration added; a renderer is judged in pc = "rendered".           *)
(***************************************************************************)
Drawn == pc = "drawn"
Current == slideInfo[1]

WithRole(prims, roles) == SelectSeq(prims, LAMBDA p : p.role \in roles)
Count(prims, roles) == Len(WithRole(prims, roles))

NavRoles == {"navBand", "navTocButton", "navTocText", "navActiveTab", "navTab"}
FooterLabelRoles == {"chapterLabel", "pageNumber"}

Headings(si) == SelectSeq(si.elements, IsHeading)
Paragraphs(si) == SelectSeq(si.elements, IsParagraph)

\* The strategy as the specification words it: the table-of-contents rule
\* looks at the first heading only, and for the label in its whole text.
StatedStrategy(si) ==
    IF si.index = 0 THEN "Title"
    ELSE IF si.metadata.isH1TitleSlide THEN "Section"
    ELSE IF /\ Headings(si) # <<>>
            /\ Includes(JoinRunTexts(Headings(si)[1].text), TocLabel)
         THEN "TableOfContents"
    ELSE "Content"

\* C1: generatePptx selects the strategy by the ordered rules index 0 ->
\* Title, h1-title-slide marker -> Section, first heading's whole text is the
\* table-of-contents label -> TableOfContents, otherwise Content.
C1_StrategyAsStated == Drawn => Strategy(Current) = StatedStrategy(Current)

\* C2: a slide rendered with the Title or the Section strategy carries no
\* navigation-bar primitive, no chapter-label primitive and no page-number
\* primitive, whatever its metadata.
C2_NoNavNoLabelsOnTitleAndSection ==
    (Drawn /\ Strategy(Current) \in {"Title", "Section"})
        => Count(slide, NavRoles \cup FooterLabelRoles) = 0

C2_Witness ==
    /\ Drawn
    /\ Strategy(Current) = "Section"
    /\ Len(Current.metadata.navChapters) = MaxChapters
    /\ Current.metadata.chapterLabel # <<>>
    /\ Current.metadata.slideNumber # <<>>
    /\ Count(slide, {"sectionTitle"}) = 1

ProgressWidthIs(p, si) ==
    p.w.num * total = SLIDE_WIDTH * (si.index + 1) * p.w.den

\* C3 as stated: a progress indicator is emitted if and only if the strategy
\* is neither Title nor Section, with width canvasWidth * (index + 1) / total.
C3_ProgressOnlyOffTitleAndSection ==
    Drawn =>
        /\ Count(slide, {"progress"}) =
              (IF Strategy(Current) \in {"Title", "Section"} THEN 0 ELSE 1)
        /\ \A i \in 1..Len(slide) :
              slide[i].role = "progress" => ProgressWidthIs(slide[i], Current)

\* C3 as amended: every slide, Title and Section slides included, gets
\* exactly one progress indicator, a bar along the bottom edge of the canvas
\* of width canvasWidth * (index + 1) / total.
C3_ProgressOnEverySlide ==
    Drawn =>
        /\ Count(slide, {"progress"}) = 1
        /\ \A i \in 1..Len(slide) :
              slide[i].role = "progress" =>
                  /\ ProgressWidthIs(slide[i], Current)
                  /\ slide[i].x = 0
                  /\ slide[i].y + slide[i].h = SLIDE_HEIGHT

C3_Witness ==
    /\ Drawn
    /\ Strategy(Current) = "Title"
    /\ total = MaxSlides
    /\ Count(slide, {"progress"}) = 1

\* C4: on a Title slide the title primitive is emitted whenever the slide
\* has a heading and shows its first heading, whatever its level; the
\* subtitle whenever it has a paragraph and shows its first paragraph; no
\* other element produces a primitive.
C4_TitleFromFirstHeading ==
    (Drawn /\ Strategy(Current) = "Title") =>
        LET fromElements == SelectSeq(slide, LAMBDA p : p.role # "progress")
            titles == WithRole(slide, {"title"})
            subtitles == WithRole(slide, {"subtitle"})
        IN  /\ Len(titles) = (IF Headings(Current) # <<>> THEN 1 ELSE 0)
            /\ Len(subtitles) = (IF Paragraphs(Current) # <<>> THEN 1 ELSE 0)
            /\ Len(fromElements) = Len(titles) + Len(subtitles)
            /\ titles # <<>> =>
                  titles[1].text = extractPlainText(Headings(Current)[1].text)
            /\ subtitles # <<>> =>
                  subtitles[1].text = extractPlainText(Paragraphs(Current)[1].text)

\* C6: a slide that is neither Title nor Section and carries n >= 1
\* chapters with active index a gets exactly one background band and exactly
\* n tab texts, one per chapter in chapter order, and only tab a is inverted.
C6_OneBandAndOneTabPerChapter ==
    LET md == Current.metadata
        n == Len(md.navChapters)
        tabs == WithRole(slide, {"navTab"})
    IN  (/\ Drawn
         /\ Strategy(Current) \notin {"Title", "Section"}
         /\ n >= 1
         /\ md.activeChapterIndex # NoActiveIndex) =>
            /\ Count(slide, {"navBand"}) = 1
            /\ Len(tabs) = n
            /\ \A i \in 1..Min(n, Len(tabs)) :
                  /\ tabs[i].text = md.navChapters[i]
                  /\ (tabs[i].color = COLORS.primary) <=> (i - 1 = md.activeChapterIndex)
            /\ Count(slide, {"navActiveTab"}) = 1

\* The prefix runs of the single text box renderList emits, in order.
RenderedAs(type) == pc = "rendered" /\ element.type = type

PrefixRuns == SelectSeq(slide[1].runs, LAMBDA r : r.kind = "prefix")

\* C5: on an ordered list the level-0 items get the prefixes "1. ", "2. ",
\* ... consecutively in source order, nested items consuming no number; every
\* nested item and every item of an unordered list gets a bullet; each
\* prefix is preceded by 4 blanks per nesting level.
C5_ListPrefixes ==
    (RenderedAs("list") /\ Len(element.items) > 0) =>
        LET numbered == SelectSeq(PrefixRuns,
                                  LAMBDA r : element.ordered
                                             /\ element.items[r.item].level = 0)
        IN  /\ Len(slide) = 1
            /\ Len(PrefixRuns) = Len(element.items)
            /\ \A i \in 1..Len(PrefixRuns) : PrefixRuns[i].item = i
            /\ \A k \in 1..Len(numbered) :
                  numbered[k].text = Decimal(k) \o <<".", " ">>
            /\ \A i \in 1..Len(PrefixRuns) :
                  LET level == element.items[i].level
                  IN  ~(element.ordered /\ level = 0) =>
                          PrefixRuns[i].text = Repeat(" ", 4 * level) \o Bullet

C5_Witness ==
    /\ RenderedAs("list")
    /\ element.ordered
    /\ Len(element.items) = 3
    /\ element.items[1].level = 0
    /\ element.items[2].level = 1
    /\ element.items[3].level = 0
    /\ PrefixRuns[3].text = <<"2", ".", " ">>
    /\ PrefixRuns[2].text = <<" ", " ", " ", " ", "*", " ">>

\* The palette the specification gives a kind: its own, note for any other.
StatedPalette(kind) ==
    IF kind \in {"note", "tip", "warning", "error", "question"}
    THEN typeColors[kind] ELSE typeColors.note

\* C7: an admonition with no title and a non-empty body yields exactly the
\* rounded box, the accent bar and the body text, coloured from the palette
\* of its kind (the note palette for any kind outside the five); the title
\* text and its underline are emitted if and only if the title is non-empty.
C7_AdmonitionPrimitives ==
    RenderedAs("admonition") =>
        LET pal == StatedPalette(element.admonitionType)
            roles == [i \in 1..Len(slide) |-> slide[i].role]
        IN  /\ (element.title = <<>> /\ element.content # <<>>) =>
                  roles = <<"admonitionBox", "admonitionBar", "admonitionBody">>
            /\ slide[1].shape = "roundRect" /\ slide[1].fill = pal.bg
            /\ slide[2].shape = "rect" /\ slide[2].fill = pal.border
            /\ \A i \in 1..Len(slide) :
                  /\ slide[i].role = "admonitionBody" => slide[i].color = pal.text
                  /\ slide[i].role = "admonitionUnderline" => slide[i].fill = pal.border
            /\ (element.title # <<>>)
                  <=> (Count(slide, {"admonitionTitle"}) = 1
                       /\ Count(slide, {"admonitionUnderline"}) = 1)
            /\ (element.title = <<>>)
                  <=> Count(slide, {"admonitionTitle", "admonitionUnderline"}) = 0

\* The containers of the slide under extraction whose background the
\* extractor may turn into a Shape: generic DIVs at the top of the content
\* and the columns of a columns-container.
IsColumn(n) == HasClass(n, "column-left") \/ HasClass(n, "column-right")

Regions ==
    {dom.childNodes[i] : i \in {j \in 1..Len(dom.childNodes) :
        /\ IsElement(dom.childNodes[j])
        /\ dom.childNodes[j].tagName = "DIV"
        /\ dom.childNodes[j].classList = <<>>}}
    \cup UNION {{c \in {Descendants(dom.childNodes[i])[k] :
                          k \in 1..Len(Descendants(dom.childNodes[i]))} : IsColumn(c)} :
                  i \in {j \in 1..Len(dom.childNodes) :
                           /\ IsElement(dom.childNodes[j])
                           /\ HasClass(dom.childNodes[j], "columns-container")}}

\* No border, and a background that is fully transparent (alpha 0) or not
\* an rgb()/rgba() colour.
NothingToDraw(n) ==
    /\ n.computed.borderWidth = 0
    /\ (n.computed.backgroundColor.a = 0 \/ ~n.computed.backgroundColor.legacy)

Shapes == SelectSeq(elements, LAMBDA e : e.type = "shape")

\* C8: a slide whose generic containers and columns all have no border and
\* a fully transparent or unparseable background yields no Shape element.
C8_NoShapeForInvisibleBackground ==
    (pc = "extracted" /\ Regions # {} /\ \A n \in Regions : NothingToDraw(n))
        => Shapes = <<>>

\* C9: every element of an extracted slide, column backgrounds and the
\* afterTitles paragraph included, has positive width and height.
C9_EveryElementHasArea ==
    pc = "extracted" =>
        \A i \in 1..Len(elements) :
            elements[i].position.w > 0 /\ elements[i].position.h > 0

\* C10: the run texts of an extracted heading, paragraph or blockquote,
\* joined in order and trimmed, are the trimmed text content of its node.
C10_RunTextsRoundTrip ==
    pc = "text" =>
        \A i \in 1..Len(elements) :
            extractPlainText(elements[i].text) = Trim(TextContent(node))

\* The nesting depths of the items of listEl that have content, in document
\* order: 0 in listEl itself, one more in a list nested in an item.
RECURSIVE ItemDepths(_, _)
ItemDepths(listEl, depth) ==
    Flatten([i \in 1..Len(listEl.childNodes) |->
        LET li == listEl.childNodes[i]
        IN  IF IsElement(li) /\ li.tagName = "LI"
            THEN (IF ItemRuns(li) # <<>> THEN <<depth>> ELSE <<>>)
                 \o Flatten([k \in 1..Len(li.childNodes) |->
                        IF IsElement(li.childNodes[k])
                           /\ li.childNodes[k].tagName \in {"UL", "OL"}
                        THEN ItemDepths(li.childNodes[k], depth + 1)
                        ELSE <<>>])
            ELSE <<>>])

\* The slide under extraction is one plain list, and it has been extracted.
ListExtracted ==
    /\ pc = "extracted"
    /\ Len(dom.childNodes) = 1
    /\ IsElement(dom.childNodes[1])
    /\ dom.childNodes[1].tagName \in {"UL", "OL"}
    /\ dom.childNodes[1].classList = <<>>
    /\ Len(elements) = 1

\* C11: the level of every item of an extracted list is its nesting depth,
\* the first item has level 0, and no item's level exceeds the level of the
\* item before it by more than 1.
C11_LevelsAreDepthsAndNeverSkip ==
    ListExtracted =>
        LET items == elements[1].items
        IN  /\ [i \in 1..Len(items) |-> items[i].level]
                  = ItemDepths(dom.childNodes[1], 0)
            /\ items # <<>> => items[1].level = 0
            /\ \A i \in 2..Len(items) : items[i].level <= items[i - 1].level + 1

\* For each of the n items, the number of runs of the text box prim that
\* carry item text (prefix and line-break runs are not counted).
EmittedRunCounts(prim, n) ==
    [i \in 1..n |->
        Len(SelectSeq(prim.runs, LAMBDA r : r.kind = "text" /\ r.item = i))]

SourceRunCounts(e) == [i \in 1..Len(e.items) |-> Len(e.items[i].text)]

RenderedLists(si) ==
    IF Strategy(si) = "Content"
    THEN SelectSeq(si.elements, LAMBDA e : IsList(e) /\ e.items # <<>>)
    ELSE IF Strategy(si) = "TableOfContents"
    THEN First(SelectSeq(si.elements, IsList))
    ELSE <<>>

ListBoxes == WithRole(slide, {"list", "tocList"})

\* C12: every list rendered on a Content or a TableOfContents slide gets one
\* text box, in which each item has as many text runs as it has runs in the
\* extracted element.
C12_ListRunCounts ==
    Drawn =>
        /\ Len(ListBoxes) = Len(RenderedLists(Current))
        /\ \A k \in 1..Min(Len(ListBoxes), Len(RenderedLists(Current))) :
              LET e == RenderedLists(Current)[k]
              IN  EmittedRunCounts(ListBoxes[k], Len(e.items)) = SourceRunCounts(e)

HasFooterOrNavMetadata(si) ==
    \/ si.metadata.navChapters # <<>>
    \/ si.metadata.chapterLabel # <<>>
    \/ si.metadata.slideNumber # <<>>

Called(f) == \E i \in 1..Len(cli.calls) : cli.calls[i] = f

\* C14: a run without a usable input document (no argument, or an argument
\* naming a file that does not exist) is reported, ends with a non-zero
\* exit status, and calls neither extractSlides nor generatePptx.
C14_NoInputIsFatal ==
    (pc = "exited" /\ (cli.argc = 0 \/ ~cli.inputExists)) =>
        /\ cli.stdout \o cli.stderr # <<>>
        /\ cli.exitCode # <<0>>
        /\ cli.calls = <<>>

\* C15: generatePptx is called only after extractSlides has returned its
\* data; when extractSlides fails at any step, generatePptx is never
\* called, no presentation file is written and the exit status is 1.
C15_GenerateOnlyAfterExtract ==
    /\ Called("generatePptx") =>
          (cli.calls[1] = "extractSlides" /\ cli.extract = "ok")
    /\ cli # Idle /\ cli.written => Called("generatePptx")
    /\ (pc = "exited" /\ Called("extractSlides") /\ cli.extract # "ok") =>
          /\ ~Called("generatePptx")
          /\ ~cli.written
          /\ cli.exitCode = <<1>>

C15_Witness ==
    /\ pc = "exited"
    /\ cli.calls = <<"extractSlides">>
    /\ cli.extract = "noSlideSelector"
    /\ cli.exitCode = <<1>>
    /\ ~cli.written

\* C16: generatePptx adds one output slide per extracted slide, in the order
\* of the slide list (increasing index); a slide with nothing to show still
\* gets its output slide, and the loop always reaches the end of the list
\* and the file is written with one slide per extracted slide.
C16_OneSlidePerExtractedSlide ==
    /\ [](nSlides = pos + (IF Drawn THEN 1 ELSE 0))
    /\ [](Drawn => Current.index > lastIndex)
    /\ [](pc = "written" => nSlides = total)
    /\ <>(pc = "written")

\* The last slide of the list has no element and no metadata.
C16_Witness ==
    /\ Drawn
    /\ total = MaxSlides
    /\ nSlides = MaxSlides
    /\ Current.elements = <<>>
    /\ ~HasFooterOrNavMetadata(Current)
    /\ WithRole(slide, {"progress"}) = slide

\* The rule the specification gives a node: the first that matches, in the
\* stated order.
StatedRule(el) ==
    IF el.tagName = "A" /\ HasClass(el, "target") THEN "anchor"
    ELSE IF el.tagName = "DIV" /\ HasClass(el, "title") THEN "title"
    ELSE IF el.tagName = "DIV" /\ HasClass(el, "toc-title") THEN "tocTitle"
    ELSE IF el.tagName = "DIV" /\ HasClass(el, "afterTitles") THEN "afterTitles"
    ELSE IF el.tagName = "UL" /\ HasClass(el, "toc-list") THEN "tocList"
    ELSE IF el.tagName \in {"H1", "H2", "H3", "H4", "H5", "H6"} THEN "heading"
    ELSE IF el.tagName = "P" THEN "paragraph"
    ELSE IF el.tagName \in {"UL", "OL"} THEN "list"
    ELSE IF el.tagName = "IMG" THEN "image"
    ELSE IF HasClass(el, "admonition") THEN "admonition"
    ELSE IF el.tagName = "PRE" \/ HasClass(el, "listing") THEN "code"
    ELSE IF el.tagName = "TABLE" THEN "table"
    ELSE IF el.tagName = "BLOCKQUOTE" THEN "blockquote"
    ELSE IF HasClass(el, "columns-container") THEN "columns"
    ELSE IF el.tagName = "DIV" THEN "container"
    ELSE "drop"

\* What the element list shows of an element: its variant, its level if it
\* is a heading, and whether it was reached through a column.
Outline(es) ==
    [i \in 1..Len(es) |->
        [type |-> es[i].type,
         level |-> IF es[i].type = "heading" THEN es[i].level ELSE 0,
         inColumn |-> es[i].position.inColumn]]

One(type, level) == <<[type |-> type, level |-> level, inColumn |-> FALSE]>>

\* The outline a marked node (a node holding a column that holds a
\* paragraph, with no text sibling) has under each rule.
StatedOutline(el) ==
    LET rule == StatedRule(el)
    IN  CASE rule \in {"anchor", "afterTitles", "drop"} -> <<>>
          [] rule \in {"title", "tocTitle"} -> One("heading", 1)
          [] rule = "heading" -> One("heading", HeadingLevel(el.tagName))
          [] rule \in {"tocList", "list"} -> One("list", 0)
          [] rule = "columns" ->
                <<[type |-> "paragraph", level |-> 0, inColumn |-> TRUE]>>
          [] rule = "container" -> One("paragraph", 0)
          [] OTHER -> One(rule, 0)

MarkedNodeExtracted ==
    /\ pc = "extracted"
    /\ Len(dom.childNodes) = 1
    /\ dom.childNodes[1] \in MarkedNodes

\* C17: processElement classifies a node by the first rule that matches in
\* the stated order and applies no later rule to it; only the
\* columns-container and the generic DIV rules extract child elements.
C17_FirstMatchingRuleWins ==
    MarkedNodeExtracted => Outline(elements) = StatedOutline(dom.childNodes[1])

\* A P carrying the admonition class was extracted as a paragraph.
C17_Witness ==
    /\ MarkedNodeExtracted
    /\ HasClass(dom.childNodes[1], "admonition")
    /\ dom.childNodes[1].tagName = "P"
    /\ Outline(elements) = One("paragraph", 0)

\* The flags the specification gives the runs under n, in order: those
\* computed for the nearest enclosing element (a line break has none).
RECURSIVE StatedFlags(_, _)
StatedFlags(n, nearest) ==
    IF IsText(n)
    THEN IF Trim(n.textContent) # <<>>
         THEN <<[bold |-> nearest.fontWeight >= 600,
                 italic |-> nearest.fontStyle = "italic",
                 underline |-> nearest.textDecoration = "underline"]>>
         ELSE <<>>
    ELSE IF n.tagName = "BR"
    THEN <<[bold |-> FALSE, italic |-> FALSE, underline |-> FALSE]>>
    ELSE Flatten([i \in 1..Len(n.childNodes) |->
                    StatedFlags(n.childNodes[i], n.computed)])

Flags(rs) ==
    [i \in 1..Len(rs) |->
        [bold |-> rs[i].options.bold, italic |-> rs[i].options.italic,
         underline |-> rs[i].options.underline]]

\* C18: the bold, italic and underline flags of every run are the values
\* computed for the run's nearest enclosing element.
C18_NearestElementDecidesStyle ==
    pc = "text" =>
        \A i \in 1..Len(elements) :
            Flags(elements[i].text) = StatedFlags(node, node.computed)

\* position.inColumn as the synthesizer reads it: a position without the
\* field reads as false.
InColumn(e) ==
    IF "inColumn" \in DOMAIN e.position THEN e.position.inColumn ELSE FALSE

RegionNodeExtracted ==
    /\ pc = "extracted"
    /\ Len(dom.childNodes) = 1
    /\ dom.childNodes[1] \in RegionNodes

\* C19: every element extracted from a descendant of a column region of a
\* columns-container has inColumn = true, under any number of generic
\* containers; every element with no columns-container ancestor has
\* inColumn = false.
C19_InColumnFollowsColumnAncestry ==
    RegionNodeExtracted =>
        \A i \in 1..Len(elements) :
            InColumn(elements[i]) = HasClass(dom.childNodes[1], "columns-container")

\* A generic container or a columns-container alone on the slide, its own
\* box without area, holding a paragraph with area.
ZeroAreaContainer(n) ==
    /\ n.tagName = "DIV"
    /\ \/ n.classList = <<>>
       \/ HasClass(n, "columns-container")
    /\ \/ n.rect.width = 0
       \/ n.rect.height = 0
    /\ \E k \in 1..Len(Descendants(n)) :
        /\ Descendants(n)[k].tagName = "P"
        /\ Descendants(n)[k].rect.width > 0
        /\ Descendants(n)[k].rect.height > 0

CollapsedContainerExtracted ==
    /\ pc = "extracted"
    /\ Len(dom.childNodes) = 1
    /\ dom.childNodes[1].nodeType = "element"
    /\ ZeroAreaContainer(dom.childNodes[1])

\* C20: the zero-area check suppresses only the node's own element: a
\* generic container or columns-container whose own box has zero width or
\* zero height is still recursed into, and its descendants with area are
\* extracted.
C20_ZeroAreaContainerIsRecursedInto ==
    CollapsedContainerExtracted =>
        \E i \in 1..Len(elements) : elements[i].type = "paragraph"

\* The primitive that carries an element: the text box, the table, or the
\* box behind the text.
MainRoles ==
    {"subheading", "list", "paragraph", "admonitionBox", "table", "codeBox",
     "quoteText", "shape"}

ElementRendered == pc = "rendered" /\ element # Idle

\* C21: for every variant dispatched on a Content slide and every extracted
\* position, the main primitive has x >= the left margin 0.5 and
\* width <= canvas width minus margins (9).
C21_MainPrimitiveWithinMargins ==
    ElementRendered =>
        \A i \in 1..Len(slide) :
            slide[i].role \in MainRoles =>
                /\ slide[i].x >= 500
                /\ slide[i].w <= SLIDE_WIDTH - 1000

\* The font sizes a renderer's primitives carry, on the primitive or on its
\* runs or cells.
FontSizesOf(prim) ==
    (IF "fontSize" \in DOMAIN prim THEN {prim.fontSize} ELSE {})
    \cup (IF "runs" \in DOMAIN prim
          THEN {prim.runs[j].options.fontSize : j \in 1..Len(prim.runs)} ELSE {})
    \cup (IF "rows" \in DOMAIN prim
          THEN UNION {{prim.rows[r][c].options.fontSize : c \in 1..Len(prim.rows[r])} :
                        r \in 1..Len(prim.rows)}
          ELSE {})

FontSizes(prims) == UNION {FontSizesOf(prims[i]) : i \in 1..Len(prims)}

\* The same element outside a column.
OutsideColumn(e) == [e EXCEPT !.position.inColumn = FALSE]

TextBearing ==
    {"list", "paragraph", "heading", "admonition", "table", "code", "blockquote"}

InColumnRendered ==
    /\ ElementRendered
    /\ element.type \in TextBearing
    /\ element.position.inColumn
    /\ FontSizes(slide) # {}

\* C22: for every text-bearing variant the font size used when
\* position.inColumn is set is strictly smaller than the size used for the
\* same element when it is not (list and paragraph: 14 pt instead of 16 pt).
C22_SmallerFontInColumn ==
    InColumnRendered =>
        /\ \A a \in FontSizes(slide) :
              \A b \in FontSizes(RenderElement(OutsideColumn(element))) : a < b
        /\ element.type \in {"list", "paragraph"} =>
              /\ FontSizes(slide) = {14}
              /\ FontSizes(RenderElement(OutsideColumn(element))) = {16}

\* The roles of the primitives that stand for an element of a variant.
RolesFor(type) ==
    CASE type = "heading" -> {"subheading"}
      [] type = "list" -> {"list"}
      [] type = "paragraph" -> {"paragraph"}
      [] type = "admonition" -> {"admonitionBox"}
      [] type = "table" -> {"table"}
      [] type = "code" -> {"codeBox"}
      [] type = "blockquote" -> {"quoteText"}
      [] type = "shape" -> {"shape"}
      [] OTHER -> {type}

\* The elements of a Content slide that the claim has dispatched: all but
\* the level-1 and level-2 headings, the empty lists and the empty tables.
Dispatched(si) ==
    SelectSeq(si.elements,
              LAMBDA e : /\ ~(e.type = "heading" /\ e.level <= 2)
                         /\ ~(e.type = "list" /\ e.items = <<>>)
                         /\ ~(e.type = "table" /\ e.rows = <<>>))

ContentSlideDrawn == Drawn /\ Strategy(Current) = "Content"

\* C23: on a Content slide each Heading of level >= 3, Paragraph, non-empty
\* List, non-empty Table, Admonition, Code, Blockquote, Image and Shape
\* element yields at least one primitive on the output slide.
C23_EveryDispatchedElementIsDrawn ==
    ContentSlideDrawn =>
        \A t \in {Dispatched(Current)[i].type : i \in 1..Len(Dispatched(Current))} :
            Count(slide, RolesFor(t)) >=
                Len(SelectSeq(Dispatched(Current), LAMBDA e : e.type = t))

StatedKinds == {"note", "tip", "warning", "error", "question"}

AdmonitionsOf(es) == SelectSeq(es, LAMBDA e : e.type = "admonition")

AdmonitionExtracted ==
    /\ pc = "extracted"
    /\ AdmonitionsOf(elements) # <<>>

\* C24: every Admonition element produced by processElement has a kind in
\* {note, tip, warning, error, question}, for any class list on the source
\* node.
C24_AdmonitionKindIsKnown ==
    AdmonitionExtracted =>
        \A i \in 1..Len(AdmonitionsOf(elements)) :
            AdmonitionsOf(elements)[i].admonitionType \in StatedKinds

\* The texts of the paragraph and text children of an admonition node that
\* hold no title node.
TitleFree(n) ==
    IF IsText(n) THEN TRUE
    ELSE /\ ~HasClass(n, "admonitionTitle")
         /\ \A k \in 1..Len(Descendants(n)) :
               ~HasClass(Descendants(n)[k], "admonitionTitle")

RemainingTexts(el) ==
    LET kids == SelectSeq(el.childNodes,
                          LAMBDA n : /\ TitleFree(n)
                                     /\ (IsText(n) \/ n.tagName = "P")
                                     /\ Trim(TextContent(n)) # <<>>)
    IN  [i \in 1..Len(kids) |-> Trim(TextContent(kids[i]))]

TitledAdmonitionExtracted ==
    /\ pc = "extracted"
    /\ Len(dom.childNodes) = 1
    /\ dom.childNodes[1] \in AdmonitionNodes
    /\ Len(elements) = 1
    /\ elements[1].type = "admonition"

\* C25: the body of an extracted Admonition never contains the text of its
\* title sub-node, wherever inside the admonition the title node sits; the
\* texts of the remaining paragraph and text children are in the body.
C25_BodyExcludesTitle ==
    TitledAdmonitionExtracted =>
        /\ elements[1].title # <<>> =>
              ~Includes(elements[1].content, elements[1].title)
        /\ \A i \in 1..Len(RemainingTexts(dom.childNodes[1])) :
              Includes(elements[1].content, RemainingTexts(dom.childNodes[1])[i])

\* The known marker classes in an item's own content: on its children that
\* are no nested list, and below them, in document order.
OwnMarkers(li) ==
    LET own == Flatten([i \in 1..Len(li.childNodes) |->
                   LET child == li.childNodes[i]
                   IN  IF IsElement(child) /\ child.tagName \notin {"UL", "OL"}
                       THEN <<child>> \o Descendants(child) ELSE <<>>])
    IN  SelectSeq(Flatten([i \in 1..Len(own) |-> own[i].classList]),
                  LAMBDA c : c \in DOMAIN colorMap)

\* The accent colours the statement gives the items of a list, one per
\* extracted item ("" : none).
RECURSIVE StatedAccents(_)
StatedAccents(listEl) ==
    LET listItems == ChildElements(listEl, {"LI"})
    IN  Flatten([i \in 1..Len(listItems) |->
            LET li == listItems[i]
                nestedLists == ChildElements(li, {"UL", "OL"})
            IN  (IF ItemRuns(li) # <<>>
                 THEN <<IF OwnMarkers(li) # <<>> THEN colorMap[OwnMarkers(li)[1]] ELSE "">>
                 ELSE <<>>)
                \o Flatten([k \in 1..Len(nestedLists) |-> StatedAccents(nestedLists[k])])])

\* The accent colours the runs of an extracted item carry.
AccentsOf(item) ==
    {IF "highlightColor" \in DOMAIN item.text[j].options
     THEN item.text[j].options.highlightColor ELSE "" : j \in 1..Len(item.text)}

HighlightListExtracted ==
    /\ pc = "extracted"
    /\ Len(dom.childNodes) = 1
    /\ dom.childNodes[1] \in HighlightNodes
    /\ Len(elements) = 1
    /\ elements[1].type = "list"

\* C26: in extractListItems an item's runs carry a highlight accent colour
\* if and only if the item's own content, excluding its nested lists,
\* carries one of the five marker classes; then every run of the item carries
\* the colour mapped from that class, and runs of items without a marker of
\* their own carry none.
C26_AccentFromOwnMarkerOnly ==
    HighlightListExtracted =>
        /\ Len(elements[1].items) = Len(StatedAccents(dom.childNodes[1]))
        /\ \A i \in 1..Len(elements[1].items) :
              AccentsOf(elements[1].items[i]) = {StatedAccents(dom.childNodes[1])[i]}

\* extractSlides has been left, by return or by an exception.
LeftExtractSlides == pc \in {"returned", "thrown"} /\ "launched" \in DOMAIN cli

\* C27: the browser launched by extractSlides is closed on every path out of
\* the function: whenever chromium.launch has succeeded, browser.close() has
\* been called when the function is left, whether navigation, the wait for
\* the '.slide' selector or the in-page evaluation succeeds or throws.
C27_BrowserClosedOnEveryPath ==
    (LeftExtractSlides /\ cli.launched) =>
        \E i \in 1..Len(cli.calls) : cli.calls[i] = "close"

\* An extracted position with area that lies within the extractor's canvas.
WithinCanvas(p) ==
    /\ p.w > 0 /\ p.h > 0
    /\ p.x >= 0 /\ p.y >= 0
    /\ p.x + p.w <= SLIDE_WIDTH
    /\ p.y + p.h <= SLIDE_HEIGHT

PlacedElementRendered == ElementRendered /\ WithinCanvas(element.position)

\* C28: every primitive the layout synthesizer emits has strictly positive
\* width and height, for every extracted element whose position has w > 0
\* and h > 0 and lies within the canvas.
C28_PrimitivesHaveArea ==
    PlacedElementRendered =>
        \A i \in 1..Len(slide) :
            /\ slide[i].w > 0
            /\ "h" \in DOMAIN slide[i] => slide[i].h > 0

\* The progress bar of the slide just drawn.
ProgressOf(prims) == WithRole(prims, {"progress"})[1]

\* C29: the k-th slide of the extracted slide list has index k (0-based,
\* contiguous), so the first output slide is the one rendered with the Title
\* strategy, (index + 1) / total never exceeds 1, and the progress fill is
\* full exactly on the last slide.
C29_IndexIsPositionInList ==
    Drawn =>
        /\ Current.index = pos
        /\ pos = 0 => Strategy(Current) = "Title"
        /\ ProgressOf(slide).w.num <= SLIDE_WIDTH * ProgressOf(slide).w.den
        /\ (ProgressOf(slide).w.num = SLIDE_WIDTH * ProgressOf(slide).w.den)
              <=> (pos = total - 1)

\* The canvas extractSlides returns as dimensions for the document.
Dimensions == Context(dom.cssSize, dom.parentRect).dimensions

\* An extracted element that lies inside the source slide.
InsideSourceSlide(e) ==
    /\ e.position.y >= 0
    /\ e.position.y + e.position.h <= Dimensions.height

SlideExtracted == pc = "extracted" /\ dom # Idle

\* C30: the canvas the layout synthesizer lays out against equals the canvas
\* the extractor normalised geometry to (width 10, height 10 / source aspect
\* ratio), for every source aspect ratio; hence every extracted element that
\* lies inside the source slide has its y and y + h inside the synthesizer's
\* canvas height.
C30_SameCanvasOnBothSides ==
    SlideExtracted =>
        /\ Dimensions.width = SLIDE_WIDTH
        /\ Dimensions.height = SLIDE_HEIGHT
        /\ \A i \in 1..Len(elements) :
              InsideSourceSlide(elements[i]) =>
                  elements[i].position.y + elements[i].position.h <= SLIDE_HEIGHT

====
